---- MODULE Spec2Model ----
(***************************************************************************)
(* Verification model of the AI-Development-Workspace audit scripts:       *)
(*   scripts/prompt_merge.py        precedence merge of prompt mappings    *)
(*   scripts/audit_data_layout.py   data/ layout and output metadata audit *)
(*   scripts/rz_ai_check.py         consolidated report                    *)
(*   scripts/audit_ai_project.py, audit_docs.py, audit_tooling.py          *)
(*                                  path-list audits and their exit codes  *)
(*   scripts/audit_llm_usage.py, prompt_extract.py   source scans          *)
(*   scripts/fix_audit_findings.py  running the audit tasks, main --run    *)
(*   scripts/validate_config.py     the validation stages of a document    *)
(*   scripts/audit_data_layout.py   the cache of loaded output schemas     *)
(* Every component has its own specification (SpecMerge, SpecStray,        *)
(* SpecOutputs, SpecCheck, SpecAudits, SpecScan, SpecMergeMain, SpecFix,   *)
(* SpecFixMain and SpecFixMainFair, SpecValidate, SpecCache); the          *)
(* variables of the other components keep their idle values.               *)
(***************************************************************************)
EXTENDS Integers, Sequences, FiniteSets, TLC

VARIABLES
    sources,      \* prompt_merge: the three mappings handed to merge_prompts
    report,       \* prompt_merge: the MergeReport it returned
    mpc,          \* prompt_merge: "idle", "call" (before the call) or "done"
    target,       \* audit_data_layout: the tree under target_root
    max_output_files,   \* audit_data_layout: the cap, NoCap for None
    metadata_schema,    \* audit_data_layout: the state of the schema file
    result,       \* audit_data_layout: the DataAuditResult returned by audit
    opened,       \* audit_data_layout: the output files read, in order
    dpc,          \* audit_data_layout: "idle", "call", "done" or "raised"
    repo,         \* rz_ai_check: the tree under target_root outside data/
    members,      \* rz_ai_check: the three member results run_checks obtained
    payload,      \* rz_ai_check: report.to_json() as built by main
    exit_code,    \* rz_ai_check: the value main returned, NoExit before
    cpc,          \* rz_ai_check: "idle", "call", "done" or "raised"
    auditor,      \* path-list audits: "structure", "docs" or "tooling", "none" when idle
    audited,      \* path-list audits: the tree under the target root
    aargs,        \* path-list audits: the command line flags
    aruns,        \* path-list audits: the runs made so far on the tree, in order
    scanned,      \* source scans: the tree under the target root
    max_size_bytes,   \* source scans: --max-size-bytes, NoCap for None
    llm_out,      \* source scans: the outcome of audit_llm_usage
    prompts_out,  \* source scans: the outcome of extract_prompts
    pm_files,     \* prompt_merge main: the three source files and the output file before
    pm_args,      \* prompt_merge main: the command line flags
    pm_output,    \* prompt_merge main: the output file
    pm_run,       \* prompt_merge main: how far main got and what it returned
    fx_tasks,     \* fix_audit_findings: the tasks to run and what running each does
    fx_dry_run,   \* fix_audit_findings: the --dry-run flag
    fx_results,   \* fix_audit_findings: the TaskResults returned
    fx_executed,  \* fix_audit_findings: the tasks whose command was passed to subprocess.run
    fx_pc,        \* fix_audit_findings: "idle", "call", "loop", "done" or "raised"
    fx_args,      \* fix_audit_findings main: --fail-on-missing, --loop, --max-iterations, --skip-plan
    fx_iterations,  \* fix_audit_findings main: the iterations of the loop completed
    fx_exit,      \* fix_audit_findings main: the value returned, NoExit before
    fx_plan,      \* fix_audit_findings main: the plan file, NoPlan if absent
    vc_doc,       \* validate_config: the YAML config file
    vc_schema,    \* validate_config: the JSON schema file
    vc_result,    \* validate_config: the ValidationResult returned
    vc_pc,        \* validate_config: "idle", "call" or "done"
    sc_disk,      \* schema cache: the schema file at each path
    sc_cache,     \* schema cache: the entries of the lru_cache, least recently used first
    sc_used,      \* schema cache: the paths looked up, least recently used first
    sc_last,      \* schema cache: the latest audit call
    sc_started    \* schema cache: whether the process runs

(***************************************************************************)
(* Generic helpers: Python dict and list operations.                       *)
(***************************************************************************)

\* the empty dict {}
EmptyDict == <<>>

\* d[k] = v on a dict
Put(d, k, v) == [x \in (DOMAIN d) \cup {k} |-> IF x = k THEN v ELSE d[x]]

\* the set of elements of a list
Range(s) == {s[i] : i \in DOMAIN s}

(***************************************************************************)
(* scripts/prompt_merge.py                                                 *)
(***************************************************************************)

\* largest scalar prompt value of the input universe
MaxScalar == 1

PromptKeys == {"a", "x"}
SubKeys == {"p", "q"}
Scalars == 1..MaxScalar

\* a prompt value is a scalar or a nested mapping sub-key -> scalar
ScalarValue(n) == [kind |-> "scalar", leaf |-> n, entries |-> EmptyDict]
NestedValue(m) == [kind |-> "mapping", leaf |-> 0, entries |-> m]

NestedMappings == UNION {[d -> Scalars] : d \in SUBSET SubKeys}
PromptValues == {ScalarValue(n) : n \in Scalars} \cup {NestedValue(m) : m \in NestedMappings}

\* Dict[str, Any]: a mapping of some prompt keys to prompt values
PromptMappings == UNION {[d -> PromptValues] : d \in SUBSET PromptKeys}

\* sources = [("core", core), ("template", template), ("project", project)]
SourceNames == <<"core", "template", "project">>

\* MergeReport(merged, source_by_key, overrides)
EmptyReport == [merged |-> EmptyDict, source_by_key |-> EmptyDict, overrides |-> EmptyDict]

\* overrides.setdefault(key, default)
SetDefault(d, k, default) == IF k \in DOMAIN d THEN d[k] ELSE default

\* variant: an earlier source keeps its value (first writer wins)
MergeEntryFirstWins(rep, source_name, key, value) ==
    IF key \in DOMAIN rep.merged
    THEN [rep EXCEPT !.overrides =
              Put(rep.overrides, key,
                  Append(SetDefault(rep.overrides, key, <<rep.source_by_key[key]>>), source_name))]
    ELSE [merged        |-> Put(rep.merged, key, value),
          source_by_key |-> Put(rep.source_by_key, key, source_name),
          overrides     |-> rep.overrides]

\* variant: the override list is not initialised with the earlier source
MergeEntryNoPrev(rep, source_name, key, value) ==
    LET ovr == IF key \in DOMAIN rep.merged
               THEN Put(rep.overrides, key,
                        Append(SetDefault(rep.overrides, key, <<>>), source_name))
               ELSE rep.overrides
    IN  [merged        |-> Put(rep.merged, key, value),
         source_by_key |-> Put(rep.source_by_key, key, source_name),
         overrides     |-> ovr]

\* variant: every write is entered in the override ledger, collision or not
MergeEntryAlwaysLedger(rep, source_name, key, value) ==
    LET prev == IF key \in DOMAIN rep.merged THEN <<rep.source_by_key[key]>> ELSE <<>>
    IN  [merged        |-> Put(rep.merged, key, value),
         source_by_key |-> Put(rep.source_by_key, key, source_name),
         overrides     |-> Put(rep.overrides, key,
                               Append(SetDefault(rep.overrides, key, prev), source_name))]

\* variant: nested mappings are merged recursively instead of replaced
MergeEntryDeep(rep, source_name, key, value) ==
    LET old  == IF key \in DOMAIN rep.merged THEN rep.merged[key] ELSE value
        deep == IF old.kind = "mapping" /\ value.kind = "mapping"
                THEN [value EXCEPT !.entries =
                          [sk \in (DOMAIN old.entries) \cup (DOMAIN value.entries) |->
                              IF sk \in DOMAIN value.entries THEN value.entries[sk]
                              ELSE old.entries[sk]]]
                ELSE value
        ovr  == IF key \in DOMAIN rep.merged
                THEN Put(rep.overrides, key,
                         Append(SetDefault(rep.overrides, key, <<rep.source_by_key[key]>>),
                                source_name))
                ELSE rep.overrides
    IN  [merged        |-> Put(rep.merged, key, deep),
         source_by_key |-> Put(rep.source_by_key, key, source_name),
         overrides     |-> ovr]

\* the body of the inner loop of merge_prompts, for one (key, value) of a source
MergeEntry(rep, source_name, key, value) ==
    LET ovr == IF key \in DOMAIN rep.merged
               THEN LET prev_source == rep.source_by_key[key]
                    IN  Put(rep.overrides, key,
                            Append(SetDefault(rep.overrides, key, <<prev_source>>), source_name))
               ELSE rep.overrides
    IN  [merged        |-> Put(rep.merged, key, value),
         source_by_key |-> Put(rep.source_by_key, key, source_name),
         overrides     |-> ovr]

\* for key, value in mapping.items(): ...
RECURSIVE MergeItems(_, _, _, _)
MergeItems(rep, source_name, mapping, keys) ==
    IF keys = {} THEN rep
    ELSE LET key == CHOOSE k \in keys : TRUE
         IN  MergeItems(MergeEntry(rep, source_name, key, mapping[key]),
                        source_name, mapping, keys \ {key})

\* for source_name, mapping in sources: ...
RECURSIVE MergeSources(_, _, _)
MergeSources(rep, srcs, i) ==
    IF i > Len(SourceNames) THEN rep
    ELSE MergeSources(MergeItems(rep, SourceNames[i], srcs[SourceNames[i]],
                                 DOMAIN srcs[SourceNames[i]]),
                      srcs, i + 1)

merge_prompts(core, template, project) ==
    MergeSources(EmptyReport, [core |-> core, template |-> template, project |-> project], 1)

(***************************************************************************)
(* scripts/audit_data_layout.py                                            *)
(***************************************************************************)

\* bounds of the input universe
MaxFiles == 2       \* JSON files under data/outputs
MaxCap == 2         \* largest --max-output-files
MaxChildren == 2    \* direct children of data/

\* max_files is None
NoCap == -1

REQUIRED_DIRS ==
    << <<"data">>, <<"data", "raw">>, <<"data", "processed">>, <<"data", "prompts">>,
       <<"data", "outputs">>, <<"data", "cache">>, <<"data", "embeddings">> >>

\* Path(p).name
PathName(p) == p[Len(p)]

ALLOWED_TOP_LEVEL_IN_DATA ==
    {PathName(REQUIRED_DIRS[i]) : i \in {j \in DOMAIN REQUIRED_DIRS : REQUIRED_DIRS[j] # <<"data">>}}

ALLOWED_TOP_LEVEL_FILES_IN_DATA == {".gitkeep", ".gitignore", "README.md"}

OUTPUT_METADATA_KEYS == <<"run_id", "model", "prompt_id", "timestamp">>

\* ---- the tree under target_root ----
\* data:     "absent", "dir" or "file" (what target_root/data is)
\* children: name -> [kind, inner]: the direct children of data/ and, for a
\*           directory, the names of the entries inside it
\* order:    the order in which data_root.iterdir() yields the children
\* outputs:  the documents of the *.json files under data/outputs, in the
\*           order in which outputs_root.rglob("*.json") yields them

\* (root / rel).exists()
Exists(tree, rel) ==
    IF Len(rel) = 1 THEN tree.data # "absent"
    ELSE tree.data = "dir" /\ rel[2] \in DOMAIN tree.children

\* ---- timestamps ----
TsZ == "2024-01-01T00:00:00Z"
TsOffset == "2024-01-01T00:00:00+00:00"
TsBad == "not-a-date"
Timestamps == {TsZ, TsOffset, TsBad}

\* ts_value.replace("Z", "+00:00")
NormalizeZ(ts) == IF ts = TsZ THEN TsOffset ELSE ts

\* datetime.fromisoformat(ts) does not raise
FromIsoFormatOk(ts) == ts = TsOffset

\* the date-time format assertion of the schema's format checker
IsDateTime(ts) == ts \in {TsZ, TsOffset}

\* ---- output documents ----
\* kind "malformed": json.loads (or the read) raises; "array": valid JSON whose
\* root is not an object; "object": a JSON object with the metadata keys `keys`
MetadataKeySet == Range(OUTPUT_METADATA_KEYS)

MalformedDoc == [kind |-> "malformed", keys |-> {}, timestamp |-> "none"]
ArrayDoc == [kind |-> "array", keys |-> {}, timestamp |-> "none"]
ObjectDocs ==
    {[kind |-> "object", keys |-> ks, timestamp |-> "none"] :
        ks \in SUBSET (MetadataKeySet \ {"timestamp"})}
    \cup
    {[kind |-> "object", keys |-> ks \cup {"timestamp"}, timestamp |-> ts] :
        ks \in SUBSET (MetadataKeySet \ {"timestamp"}), ts \in Timestamps}
OutputDocs == {MalformedDoc, ArrayDoc} \cup ObjectDocs

\* ---- schema file ----
\* "unreadable": read_text raises OSError; "malformed": json.loads raises;
\* "not_mapping": valid JSON, root not an object; "empty": the object {};
\* "mapping": a non-empty JSON object, a schema that requires the keys
\* `required` and asserts the date-time format of timestamp iff `format`
SchemaFile(state, required, format) == [state |-> state, required |-> required, format |-> format]
SchemaFiles ==
    {SchemaFile(st, {}, FALSE) : st \in {"unreadable", "malformed", "not_mapping", "empty"}}
    \cup {SchemaFile("mapping", r, f) : r \in {{}, MetadataKeySet}, f \in BOOLEAN}

\* json.loads of the schema file raises (not caught by `except OSError`)
LoadSchemaRaises(schema_file) == schema_file.state = "malformed"

\* _load_output_schema: None for an unreadable or non-mapping file
NoSchema == SchemaFile("none", {}, FALSE)
_load_output_schema(schema_file) ==
    IF schema_file.state \in {"unreadable", "not_mapping"} THEN NoSchema ELSE schema_file

\* `if schema:` -- None and the empty mapping are falsy
SchemaTruthy(schema) == schema.state = "mapping"

\* ---- issues ----
\* an issue string "<path>: <text>" is [path, kind, detail]; the path of an
\* output file is its position in the rglob order, 0 stands for outputs_root
\* (a directory); detail lists the keys or messages the text names and cap
\* is the number a truncation issue names
Issue(path, kind, detail) == [path |-> path, kind |-> kind, detail |-> detail, cap |-> NoCap]
TruncationIssue(max_files) == [path |-> 0, kind |-> "truncated", detail |-> <<>>, cap |-> max_files]

\* [key for key in OUTPUT_METADATA_KEYS if key not in data_map]
MissingKeys(doc) == SelectSeq(OUTPUT_METADATA_KEYS, LAMBDA key : key \notin doc.keys)

\* _jsonschema_errors: one message per violated assertion
_jsonschema_errors(schema, doc) ==
    SelectSeq(OUTPUT_METADATA_KEYS,
              LAMBDA key : key \in schema.required /\ key \notin doc.keys)
    \o (IF schema.format /\ "timestamp" \in doc.keys /\ ~IsDateTime(doc.timestamp)
        THEN <<"format:timestamp">> ELSE <<>>)

\* _validate_output_file after _ensure_mapping: schema, timestamp, missing keys
ValidateObject(path, doc, schema) ==
    IF SchemaTruthy(schema) /\ _jsonschema_errors(schema, doc) # <<>>
    THEN <<Issue(path, "schema", _jsonschema_errors(schema, doc))>>
    ELSE IF "timestamp" \in doc.keys /\ ~FromIsoFormatOk(NormalizeZ(doc.timestamp))
    THEN <<Issue(path, "timestamp", <<>>)>>
    ELSE IF MissingKeys(doc) # <<>>
    THEN <<Issue(path, "missing_keys", MissingKeys(doc))>>
    ELSE <<>>

\* variant: a parse failure is recorded and validation goes on
ValidateOutputFileNoReturn(path, doc, schema) ==
    IF doc.kind = "malformed"
    THEN <<Issue(path, "parse", <<>>)>> \o ValidateObject(path, doc, schema)
    ELSE IF doc.kind # "object" THEN <<Issue(path, "not_object", <<>>)>>
    ELSE ValidateObject(path, doc, schema)

\* _validate_output_file: the issues of one output file
_validate_output_file(path, doc, schema) ==
    IF doc.kind = "malformed" THEN <<Issue(path, "parse", <<>>)>>
    ELSE IF doc.kind # "object" THEN <<Issue(path, "not_object", <<>>)>>
    ELSE ValidateObject(path, doc, schema)

\* variant: the cap is tested after the file has been validated
CapReachedAfter(max_files, count) == max_files # NoCap /\ count > max_files

\* max_files is not None and count >= max_files
CapReached(max_files, count) == max_files # NoCap /\ count >= max_files

\* the loop of _check_output_metadata from the i-th file on;
\* acc = [issues, count, opened, raised]
RECURSIVE CheckLoop(_, _, _, _, _)
CheckLoop(files, i, max_files, schema, acc) ==
    IF i > Len(files) THEN acc
    ELSE IF CapReached(max_files, acc.count)
    THEN [acc EXCEPT !.issues = Append(@, TruncationIssue(max_files))]
    ELSE CheckLoop(files, i + 1, max_files, schema,
                   [acc EXCEPT !.issues = @ \o _validate_output_file(i, files[i], schema),
                               !.count = @ + 1,
                               !.opened = Append(@, i)])

\* _check_output_metadata(outputs_root, max_files, schema_path)
_check_output_metadata(tree, max_files, schema_file) ==
    IF ~Exists(tree, <<"data", "outputs">>)
    THEN [issues |-> <<>>, count |-> 0, opened |-> <<>>, raised |-> FALSE]
    ELSE IF LoadSchemaRaises(schema_file)
    THEN [issues |-> <<>>, count |-> 0, opened |-> <<>>, raised |-> TRUE]
    ELSE CheckLoop(tree.outputs, 1, max_files, _load_output_schema(schema_file),
                   [issues |-> <<>>, count |-> 0, opened |-> <<>>, raised |-> FALSE])

\* _find_missing(root, expected)
_find_missing(tree, expected) == SelectSeq(expected, LAMBDA rel : ~Exists(tree, rel))

\* variant: one allow-set for directories and files alike
IsStrayOneSet(name, kind) ==
    name \notin (ALLOWED_TOP_LEVEL_IN_DATA \cup ALLOWED_TOP_LEVEL_FILES_IN_DATA)

\* the classification of one child in _find_stray_items
IsStray(name, kind) ==
    IF kind = "dir" THEN name \notin ALLOWED_TOP_LEVEL_IN_DATA
    ELSE name \notin ALLOWED_TOP_LEVEL_FILES_IN_DATA

\* the loop of _find_stray_items over data_root.iterdir()
RECURSIVE StrayLoop(_, _, _)
StrayLoop(tree, i, stray) ==
    IF i > Len(tree.order) THEN stray
    ELSE LET name == tree.order[i]
             rel  == <<"data", name>>
         IN  StrayLoop(tree, i + 1,
                       IF IsStray(name, tree.children[name].kind)
                       THEN Append(stray, rel) ELSE stray)

\* data_root.iterdir() raises NotADirectoryError
IterdirRaises(tree) == tree.data = "file"

\* _find_stray_items(data_root)
_find_stray_items(tree) == IF ~Exists(tree, <<"data">>) THEN <<>> ELSE StrayLoop(tree, 1, <<>>)

EmptyResult == [missing_dirs |-> <<>>, stray_items |-> <<>>, metadata_issues |-> <<>>]

\* DataAuditResult.is_compliant
DataIsCompliant(res) ==
    res.missing_dirs = <<>> /\ res.stray_items = <<>> /\ res.metadata_issues = <<>>

\* audit(target_root, max_output_files, metadata_schema):
\* [raised, result, opened]
audit_data_layout(tree, max_files, schema_file) ==
    LET meta == _check_output_metadata(tree, max_files, schema_file)
    IN  IF IterdirRaises(tree) \/ meta.raised
        THEN [raised |-> TRUE, result |-> EmptyResult,
              opened |-> IF IterdirRaises(tree) THEN <<>> ELSE meta.opened]
        ELSE [raised |-> FALSE,
              result |-> [missing_dirs    |-> _find_missing(tree, REQUIRED_DIRS),
                          stray_items     |-> _find_stray_items(tree),
                          metadata_issues |-> meta.issues],
              opened |-> meta.opened]

\* ---- input universes ----
EmptyTree == [data |-> "absent", children |-> EmptyDict, order |-> <<>>, outputs |-> <<>>]

\* sequences of length at most n over S
SeqUpTo(S, n) == UNION {[1..k -> S] : k \in 0..n}

\* the orders in which iterdir may yield the names of `names`
Orders(names) ==
    {o \in [1..Cardinality(names) -> names] : \A i, j \in DOMAIN o : i # j => o[i] # o[j]}

ChildNames == {"raw", "README.md", "tmp", "random.txt"}
InnerNames == {"tmp"}
Children ==
    {[kind |-> "file", inner |-> {}]} \cup {[kind |-> "dir", inner |-> n] : n \in SUBSET InnerNames}

\* trees for the stray scan: up to MaxChildren children of data/, no outputs
StrayTrees ==
    {[data |-> d, children |-> EmptyDict, order |-> <<>>, outputs |-> <<>>] : d \in {"absent", "file"}}
    \cup
    UNION {{[data |-> "dir", children |-> c, order |-> o, outputs |-> <<>>] :
                c \in [names -> Children], o \in Orders(names)} :
           names \in {n \in SUBSET ChildNames : Cardinality(n) <= MaxChildren}}

\* trees for the output scan: data/ holds outputs/ with up to MaxFiles files
OutputTrees ==
    {[data |-> "dir", children |-> [n \in {"outputs"} |-> [kind |-> "dir", inner |-> {}]],
      order |-> <<"outputs">>, outputs |-> files] : files \in SeqUpTo(OutputDocs, MaxFiles)}

Caps == {NoCap} \cup (0..MaxCap)

IdleData ==
    /\ target = EmptyTree
    /\ max_output_files = NoCap
    /\ metadata_schema = SchemaFile("unreadable", {}, FALSE)
    /\ result = EmptyResult
    /\ opened = <<>>
    /\ dpc = "idle"

\* a caller about to audit a tree for stray items
InitStray ==
    /\ target \in StrayTrees
    /\ max_output_files = NoCap
    /\ metadata_schema \in SchemaFiles
    /\ result = EmptyResult
    /\ opened = <<>>
    /\ dpc = "call"

\* a caller about to audit the files under data/outputs
InitOutputs ==
    /\ target \in OutputTrees
    /\ max_output_files \in Caps
    /\ metadata_schema \in SchemaFiles
    /\ result = EmptyResult
    /\ opened = <<>>
    /\ dpc = "call"

\* result = audit(target_root, max_output_files, metadata_schema), returning
AuditReturns ==
    /\ dpc = "call"
    /\ ~audit_data_layout(target, max_output_files, metadata_schema).raised
    /\ result' = audit_data_layout(target, max_output_files, metadata_schema).result
    /\ opened' = audit_data_layout(target, max_output_files, metadata_schema).opened
    /\ dpc' = "done"
    /\ UNCHANGED <<target, max_output_files, metadata_schema>>

\* audit(...) leaves with an exception
AuditRaises ==
    /\ dpc = "call"
    /\ audit_data_layout(target, max_output_files, metadata_schema).raised
    /\ opened' = audit_data_layout(target, max_output_files, metadata_schema).opened
    /\ dpc' = "raised"
    /\ UNCHANGED <<target, max_output_files, metadata_schema, result>>

(***************************************************************************)
(* scripts/audit_tooling.py (required items), scripts/prompt_extract.py    *)
(* (enumeration and count), scripts/rz_ai_check.py                         *)
(***************************************************************************)

\* bounds of the input universe
MaxSources == 1     \* source files in the tree
MaxPrompts == 1     \* prompt assignments found in one source file
MaxCheckFiles == 1  \* JSON files under data/outputs in a consolidated run

\* ---- the tree outside data/ ----
\* files:     the names of the regular files present directly under the root
\* workflows: the files in .github/workflows, as [stem, suffix]
\* sources:   the source files, in rglob order, as [kind, suffix, ignored,
\*            read, prompts]: ignored iff a path segment is in IGNORE_DIRS,
\*            read the outcome of read_text, prompts the number of prompt
\*            assignments of sufficient length found in the file

CI_SENTINEL == ".github/workflows/ci.yml"
CiWorkflowFile == [stem |-> "ci", suffix |-> ".yml"]

REQUIRED_FILES == <<".pre-commit-config.yaml", CI_SENTINEL>>

LANGUAGE_REQUIRED ==
    [python |-> <<"pyproject.toml">>, javascript |-> <<"package.json">>,
     typescript |-> <<"package.json", "tsconfig.json">>,
     c_cpp |-> <<>>, powershell |-> <<>>, shell |-> <<>>]

\* every alternative group, already in sorted(group) order
LANGUAGE_REQUIRED_ALT_GROUPS ==
    [python |-> <<>>, javascript |-> <<>>, typescript |-> <<>>,
     c_cpp |-> << <<"CMakeLists.txt", "Makefile">> >>, powershell |-> <<>>, shell |-> <<>>]

\* exts_to_lang.get(suffix), "" for None
ExtsToLang(suffix) ==
    CASE suffix = ".py" -> "python"
      [] suffix \in {".ts", ".tsx"} -> "typescript"
      [] suffix = ".js" -> "javascript"
      [] suffix \in {".c", ".cc", ".cpp", ".cxx", ".h", ".hpp", ".hxx"} -> "c_cpp"
      [] suffix = ".ps1" -> "powershell"
      [] suffix = ".sh" -> "shell"
      [] OTHER -> ""

\* _detect_languages: default max_files
DETECT_MAX_FILES == 2000

\* (root / rel).exists() for the items of the tooling catalogues
ToolExists(rp, rel) ==
    IF rel = CI_SENTINEL THEN CiWorkflowFile \in rp.workflows ELSE rel \in rp.files

\* _find_missing of audit_tooling
ToolFindMissing(rp, expected) == SelectSeq(expected, LAMBDA rel : ~ToolExists(rp, rel))

\* _has_ci_workflow
_has_ci_workflow(rp) == \E candidate \in rp.workflows : candidate.suffix \in {".yml", ".yaml"}

\* Path(name).suffix of the other files of the tree
SuffixOf(name) ==
    CASE name = ".pre-commit-config.yaml" -> ".yaml"
      [] name = "pyproject.toml" -> ".toml"
      [] name \in {"package.json", "tsconfig.json"} -> ".json"
      [] name = "README.md" -> ".md"
      [] name \in {"random.txt", "llm.txt"} -> ".txt"
      [] name = "app.py" -> ".py"
      [] name = "app.js" -> ".js"
      [] OTHER -> ""

\* a set as a list, in some order
RECURSIVE SetToSeq(_)
SetToSeq(S) == IF S = {} THEN <<>> ELSE LET x == CHOOSE y \in S : TRUE IN <<x>> \o SetToSeq(S \ {x})

\* the suffixes of the non-directory paths that root.rglob("*") yields
RglobSuffixes(rp, tree) ==
    [i \in DOMAIN SetToSeq(rp.files) |-> SuffixOf(SetToSeq(rp.files)[i])]
    \o [i \in DOMAIN SetToSeq(rp.workflows) |-> SetToSeq(rp.workflows)[i].suffix]
    \o [i \in DOMAIN rp.sources |-> rp.sources[i].suffix]
    \o (LET files == SelectSeq(tree.order, LAMBDA n : tree.children[n].kind = "file")
        IN  [i \in DOMAIN files |-> SuffixOf(files[i])])
    \o [i \in DOMAIN tree.outputs |-> ".json"]

\* the loop of _detect_languages over the files, stopping after max_files
RECURSIVE DetectLoop(_, _, _, _, _)
DetectLoop(suffixes, i, count, max_files, langs) ==
    IF i > Len(suffixes) \/ count + 1 > max_files THEN langs
    ELSE DetectLoop(suffixes, i + 1, count + 1, max_files,
                    IF ExtsToLang(suffixes[i]) # "" THEN langs \cup {ExtsToLang(suffixes[i])}
                    ELSE langs)

_detect_languages(rp, tree) == DetectLoop(RglobSuffixes(rp, tree), 1, 0, DETECT_MAX_FILES, {})

\* the alternative groups of a language none of whose members exists, flattened
RECURSIVE AltGroupsMissing(_, _, _)
AltGroupsMissing(rp, groups, i) ==
    IF i > Len(groups) THEN <<>>
    ELSE (IF \E j \in DOMAIN groups[i] : ToolExists(rp, groups[i][j]) THEN <<>> ELSE groups[i])
         \o AltGroupsMissing(rp, groups, i + 1)

\* _check_language_requirements, flat list; langs is a set and lang_order the
\* order in which `for lang in langs` iterates over it
RECURSIVE LangRequiredLoop(_, _, _)
LangRequiredLoop(rp, lang_order, i) ==
    IF i > Len(lang_order) THEN <<>>
    ELSE ToolFindMissing(rp, LANGUAGE_REQUIRED[lang_order[i]])
         \o AltGroupsMissing(rp, LANGUAGE_REQUIRED_ALT_GROUPS[lang_order[i]], 1)
         \o LangRequiredLoop(rp, lang_order, i + 1)

\* str(target_root), the same in every member result of one run
TargetRoot == "/repo"

RECOMMENDED_FILES == <<"mypy.ini", "pytest.ini", "ruff.toml", ".ruff.toml">>

PYTHON_PRECOMMIT_RECOMMENDED_HOOKS == <<"ruff", "pydoclint">>

RECOMMENDED_DIRS == <<"tests">>

LANGUAGE_RECOMMENDED ==
    [python |-> <<"mypy.ini", "pytest.ini", "ruff.toml", ".ruff.toml">>,
     javascript |-> <<"package-lock.json", "yarn.lock", "pnpm-lock.yaml",
                      ".eslintrc.json", ".eslintrc.js", "eslint.config.js">>,
     typescript |-> <<"tsconfig.json">>,
     c_cpp |-> <<"CMakeLists.txt", "Makefile">>,
     powershell |-> <<"PSScriptAnalyzerSettings.psd1">>,
     shell |-> <<".shellcheckrc">>]

\* sorted() over the names of RECOMMENDED_FILES: code point order
SortedRecommended == <<".ruff.toml", "mypy.ini", "pytest.ini", "ruff.toml">>

\* _find_missing_dirs: a recommended directory is missing unless it is a directory
_find_missing_dirs(rp, expected_dirs) ==
    SelectSeq(expected_dirs, LAMBDA rel : ~(rel = "tests" /\ rp.tests = "dir"))

\* _normalize_missing_recommended: either ruff file satisfies the ruff group
_normalize_missing_recommended(missing_recommended) ==
    LET missing    == Range(missing_recommended)
        ruff_group == {"ruff.toml", ".ruff.toml"}
        kept       == IF Cardinality(missing \cap ruff_group) < Cardinality(ruff_group)
                      THEN missing \ ruff_group
                      ELSE missing
    IN  SelectSeq(SortedRecommended, LAMBDA n : n \in kept)

\* _pre_commit_hook_ids: the ids the configuration declares, none if it is
\* missing or unreadable
_pre_commit_hook_ids(rp) ==
    IF ".pre-commit-config.yaml" \in rp.files THEN rp.hooks ELSE {}

\* the recommended pre-commit hooks of a Python repository that are not declared
MissingHooks(rp, langs) ==
    IF "python" \in langs /\ ToolExists(rp, ".pre-commit-config.yaml")
    THEN SelectSeq(PYTHON_PRECOMMIT_RECOMMENDED_HOOKS,
                   LAMBDA hook_id : hook_id \notin _pre_commit_hook_ids(rp))
    ELSE <<>>

\* f"pre-commit hook: {hook_id}"
HookItem(hook_id) == IF hook_id = "ruff" THEN "pre-commit hook: ruff" ELSE "pre-commit hook: pydoclint"

\* _check_language_recommended followed by the loop over .values(): the
\* missing recommended items of each language, in the iteration order of langs
RECURSIVE LangRecommendedLoop(_, _, _)
LangRecommendedLoop(rp, lang_order, i) ==
    IF i > Len(lang_order) THEN <<>>
    ELSE (LET missing == ToolFindMissing(rp, LANGUAGE_RECOMMENDED[lang_order[i]])
          IN  IF lang_order[i] = "python" THEN _normalize_missing_recommended(missing)
              ELSE missing)
         \o LangRecommendedLoop(rp, lang_order, i + 1)

\* deduplicate while preserving order
RECURSIVE Dedup(_, _, _)
Dedup(items, i, seen) ==
    IF i > Len(items) THEN <<>>
    ELSE IF items[i] \in seen THEN Dedup(items, i + 1, seen)
    ELSE <<items[i]>> \o Dedup(items, i + 1, seen \cup {items[i]})

\* audit of audit_tooling.py: the ToolingAuditResult
audit_tooling(rp, tree, lang_order) ==
    LET missing == ToolFindMissing(rp, REQUIRED_FILES)
        no_ci   == IF CI_SENTINEL \in Range(missing) /\ _has_ci_workflow(rp)
                   THEN SelectSeq(missing, LAMBDA m : m # CI_SENTINEL)
                   ELSE missing
        hooks   == MissingHooks(rp, Range(lang_order))
        recommended ==
            _normalize_missing_recommended(ToolFindMissing(rp, RECOMMENDED_FILES))
            \o [i \in DOMAIN hooks |-> HookItem(hooks[i])]
            \o LangRecommendedLoop(rp, lang_order, 1)
    IN  [target |-> TargetRoot,
         missing_required |-> no_ci \o LangRequiredLoop(rp, lang_order, 1),
         missing_recommended |-> Dedup(recommended, 1, {}),
         missing_recommended_dirs |-> _find_missing_dirs(rp, RECOMMENDED_DIRS)]

\* variant: the recommended files, hooks and directories are required too
ToolingIsCompliantStrict(res) ==
    /\ res.missing_required = <<>>
    /\ res.missing_recommended = <<>>
    /\ res.missing_recommended_dirs = <<>>

\* ToolingAuditResult.is_compliant
ToolingIsCompliant(res) == res.missing_required = <<>>

\* ToolingAuditResult.to_json
ToolingToJson(res) ==
    [target |-> res.target,
     missing_required |-> res.missing_required,
     missing_recommended |-> res.missing_recommended,
     missing_recommended_dirs |-> res.missing_recommended_dirs,
     is_compliant |-> ToolingIsCompliant(res)]

\* extract_prompts: default extensions
PROMPT_EXTENSIONS == {".py"}

\* _iter_code_files of prompt_extract.py yields the path
PromptYields(file) ==
    file.kind = "file" /\ file.suffix \in PROMPT_EXTENSIONS /\ ~file.ignored

\* the findings of one source file: its prompts if _iter_code_files yields it
\* and read_text does not raise OSError
FileFindings(i, file) ==
    IF PromptYields(file) /\ file.read = "ok"
    THEN [k \in 1..file.prompts |-> [path |-> i, index |-> k]]
    ELSE <<>>

\* read_text of a yielded file raises UnicodeDecodeError, which extract_prompts
\* does not catch
ExtractRaises(srcs) ==
    \E i \in DOMAIN srcs : PromptYields(srcs[i]) /\ srcs[i].read = "undecodable"

\* extract_prompts(target_root).prompts
RECURSIVE ExtractLoop(_, _)
ExtractLoop(srcs, i) ==
    IF i > Len(srcs) THEN <<>> ELSE FileFindings(i, srcs[i]) \o ExtractLoop(srcs, i + 1)

extract_prompts(rp) == [target |-> TargetRoot, prompts |-> ExtractLoop(rp.sources, 1)]

\* PromptExtractionResult.to_json
PromptToJson(prompt_result) ==
    [target |-> prompt_result.target,
     prompts |-> prompt_result.prompts,
     is_compliant |-> TRUE]

\* DataAuditResult.to_json
DataToJson(res) ==
    [target |-> TargetRoot,
     missing_dirs |-> res.missing_dirs,
     stray_items |-> res.stray_items,
     metadata_issues |-> res.metadata_issues,
     is_compliant |-> DataIsCompliant(res)]

\* --max-output-files and --metadata-schema are not passed by run_checks
\* the schema shipped at schemas/outputs_metadata.schema.json
DefaultSchema == SchemaFile("mapping", MetadataKeySet, TRUE)

StatusOf(is_compliant) == IF is_compliant THEN "pass" ELSE "fail"

\* variant: a repository with inline prompts fails the prompt check
PromptStatusEnforcing(prompt_result) == StatusOf(prompt_result.prompts = <<>>)

\* the status of the prompt_extract check: informational only
PromptStatus(prompt_result) == "pass"

CheckResult(name, status, details) == [name |-> name, status |-> status, details |-> details]

\* details of the tooling check
ToolingDetails(tooling_result) == ToolingToJson(tooling_result)

\* variant: the data layout check keeps the verdict only
DataDetailsVerdictOnly(data_result) == [is_compliant |-> DataIsCompliant(data_result)]

\* details of the data_layout check
DataDetails(data_result) == DataToJson(data_result)

\* details of the prompt_extract check
PromptDetails(prompt_result) ==
    [prompt_count |-> Len(prompt_result.prompts), target |-> prompt_result.target]

\* the three member results of run_checks(target_root), once no audit has raised
MemberResults(rp, tree, lang_order) ==
    [tooling |-> audit_tooling(rp, tree, lang_order),
     data_layout |-> audit_data_layout(tree, NoCap, DefaultSchema).result,
     prompt_extract |-> extract_prompts(rp)]

\* run_checks(target_root).checks, once no audit has raised
run_checks(rp, tree, lang_order) ==
    LET results        == MemberResults(rp, tree, lang_order)
        tooling_result == results.tooling
        data_result    == results.data_layout
        prompt_result  == results.prompt_extract
    IN  << CheckResult("tooling", StatusOf(ToolingIsCompliant(tooling_result)),
                       ToolingDetails(tooling_result)),
           CheckResult("data_layout", StatusOf(DataIsCompliant(data_result)),
                       DataDetails(data_result)),
           CheckResult("prompt_extract", PromptStatus(prompt_result),
                       PromptDetails(prompt_result)) >>

\* variant: one passing check is enough
PassedAny(checks) == \E i \in DOMAIN checks : checks[i].status = "pass"

\* ConsolidatedReport.passed
Passed(checks) == \A i \in DOMAIN checks : checks[i].status = "pass"

\* ConsolidatedReport.to_json
ReportToJson(checks) == [passed |-> Passed(checks), checks |-> checks]

\* return 0 if report.passed else 1
ExitCodeOf(checks) == IF Passed(checks) THEN 0 ELSE 1

\* ---- input universes ----
NoExit == -1

RootFiles == {".pre-commit-config.yaml", "pyproject.toml", "package.json", "tsconfig.json"}
WorkflowFiles == {CiWorkflowFile, [stem |-> "build", suffix |-> ".yaml"],
                  [stem |-> "notes", suffix |-> ".txt"]}
SourceFiles ==
    [kind : {"file"}, suffix : {".py", ".ts", ".js"}, ignored : BOOLEAN, read : {"ok"},
     prompts : 0..MaxPrompts]

CheckRepos ==
    [files : SUBSET RootFiles, workflows : SUBSET WorkflowFiles,
     sources : SeqUpTo(SourceFiles, MaxSources), tests : {"absent"}, hooks : {{}}]

EmptyRepo == [files |-> {}, workflows |-> {}, sources |-> <<>>, tests |-> "absent", hooks |-> {}]

\* the member results before any audit has run
NoMembers ==
    [tooling |-> [target |-> TargetRoot, missing_required |-> <<>>,
                  missing_recommended |-> <<>>, missing_recommended_dirs |-> <<>>],
     data_layout |-> EmptyResult,
     prompt_extract |-> [target |-> TargetRoot, prompts |-> <<>>]]

\* the six required sub-directories of data/, in catalogue order
RequiredChildOrder ==
    [i \in 1..(Len(REQUIRED_DIRS) - 1) |-> PathName(REQUIRED_DIRS[i + 1])]

DirTree(order, outputs) ==
    [data |-> "dir", children |-> [n \in Range(order) |-> [kind |-> "dir", inner |-> {}]],
     order |-> order, outputs |-> outputs]

ValidDoc == [kind |-> "object", keys |-> MetadataKeySet, timestamp |-> TsZ]
CheckDocs == {ValidDoc, MalformedDoc, [kind |-> "object", keys |-> {"model"}, timestamp |-> "none"]}

\* data/ trees of a consolidated run: absent, not a directory, complete with
\* some output files, one required directory short, one stray directory
CheckTrees ==
    {EmptyTree, [EmptyTree EXCEPT !.data = "file"]}
    \cup {DirTree(RequiredChildOrder, files) : files \in SeqUpTo(CheckDocs, MaxCheckFiles)}
    \cup {DirTree(SubSeq(RequiredChildOrder, 1, Len(RequiredChildOrder) - 1), <<>>),
          DirTree(Append(RequiredChildOrder, "tmp"), <<>>)}

IdleCheck ==
    /\ repo = EmptyRepo
    /\ members = NoMembers
    /\ payload = ReportToJson(<<>>)
    /\ exit_code = NoExit
    /\ cpc = "idle"

\* rz_ai_check is about to run on a tree
InitCheck ==
    /\ repo \in CheckRepos
    /\ target \in CheckTrees
    /\ max_output_files = NoCap
    /\ metadata_schema = DefaultSchema
    /\ result = EmptyResult
    /\ opened = <<>>
    /\ dpc = "idle"
    /\ members = NoMembers
    /\ payload = ReportToJson(<<>>)
    /\ exit_code = NoExit
    /\ cpc = "call"

\* main of rz_ai_check: run_checks, to_json, exit code
MainReturns ==
    /\ cpc = "call"
    /\ ~audit_data_layout(target, NoCap, DefaultSchema).raised
    /\ ~ExtractRaises(repo.sources)
    /\ \E lang_order \in Orders(_detect_languages(repo, target)) :
           LET checks == run_checks(repo, target, lang_order)
           IN  /\ members' = MemberResults(repo, target, lang_order)
               /\ payload' = ReportToJson(checks)
               /\ exit_code' = ExitCodeOf(checks)
    /\ cpc' = "done"
    /\ UNCHANGED repo

\* main of rz_ai_check leaves with the exception of a member audit
MainRaises ==
    /\ cpc = "call"
    /\ audit_data_layout(target, NoCap, DefaultSchema).raised \/ ExtractRaises(repo.sources)
    /\ cpc' = "raised"
    /\ UNCHANGED <<repo, members, payload, exit_code>>

(***************************************************************************)
(* scripts/audit_ai_project.py, scripts/audit_docs.py and the command line *)
(* of scripts/audit_tooling.py: the three path-list audits.                *)
(***************************************************************************)

MaxMissing == 2
MaxLangs == 2

\* REQUIRED_DIRS of audit_ai_project.py
PROJECT_REQUIRED_DIRS ==
    <<"config", "data", "data/raw", "data/processed", "data/prompts", "data/outputs",
      "data/cache", "data/embeddings", "docs">>

\* REQUIRED_FILES of audit_ai_project.py
PROJECT_REQUIRED_FILES == <<"config/prompts.yaml", "config/models.yaml", "README.md">>

\* RECOMMENDED_FILES of audit_ai_project.py
PROJECT_RECOMMENDED_FILES ==
    <<".gitignore", ".editorconfig", "docs/AI_PROMPTING_STANDARDS.md", "docs/COPILOT_USAGE.md">>

\* the marker main appends to missing_files when the schema validation fails
SchemaValidationFailed == "(schema validation failed)"

\* _find_missing of audit_ai_project.py and of audit_docs.py
PathsMissing(tree, expected) == SelectSeq(expected, LAMBDA rel : rel \notin tree.present)

\* audit of audit_ai_project.py; config_validation_passed is "None", "True" or "False"
audit_ai_project(tree) ==
    [target |-> TargetRoot,
     missing_dirs |-> PathsMissing(tree, PROJECT_REQUIRED_DIRS),
     missing_files |-> PathsMissing(tree, PROJECT_REQUIRED_FILES),
     missing_recommended |-> PathsMissing(tree, PROJECT_RECOMMENDED_FILES),
     config_validation_passed |-> "None"]

\* variant: only the required directories count
ProjectIsCompliantDirsOnly(res) == res.missing_dirs = <<>>

\* AuditResult.is_compliant
ProjectIsCompliant(res) == res.missing_dirs = <<>> /\ res.missing_files = <<>>

\* AuditResult.to_json
ProjectToJson(res) ==
    [target |-> res.target,
     missing_dirs |-> res.missing_dirs,
     missing_files |-> res.missing_files,
     missing_recommended |-> res.missing_recommended,
     config_validation_passed |-> res.config_validation_passed,
     is_compliant |-> ProjectIsCompliant(res) /\ res.config_validation_passed \in {"True", "None"}]

\* print_human of audit_ai_project.py: TRUE for "Project matches core AI
\* structure.", FALSE for "Project does NOT match core AI structure."
ProjectHumanVerdict(res) ==
    ProjectIsCompliant(res) /\ res.config_validation_passed \in {"True", "None"}

\* _run_config_validation: False without scripts/ajv-validate.mjs, else
\* whether node exits with 0
_run_config_validation(tree) == tree.ajv = "ok"

\* main of audit_ai_project.py up to the rendering: the result after the
\* optional schema validation
ProjectResult(tree, args) ==
    LET res == audit_ai_project(tree)
    IN  IF ~args.validate_configs THEN res
        ELSE IF _run_config_validation(tree)
        THEN [res EXCEPT !.config_validation_passed = "True"]
        ELSE [res EXCEPT !.config_validation_passed = "False",
                         !.missing_files = Append(@, SchemaValidationFailed)]

\* what main of audit_ai_project.py prints: the JSON document or the human
\* rendering with its verdict line
ProjectPrinted(res, args) ==
    [format |-> IF args.json THEN "json" ELSE "human",
     missing_dirs |-> res.missing_dirs,
     missing_files |-> res.missing_files,
     missing_recommended |-> res.missing_recommended,
     is_compliant |-> IF args.json THEN ProjectToJson(res).is_compliant
                      ELSE ProjectHumanVerdict(res)]

\* the exit code of main of audit_ai_project.py
ProjectExitCode(res, args) ==
    IF ~ProjectIsCompliant(res) THEN 1
    ELSE IF args.validate_configs /\ res.config_validation_passed = "False" THEN 1
    ELSE 0

REQUIRED_DOCS ==
    <<"docs/PROJECT_STRUCTURE.md", "docs/AI_PROMPTING_STANDARDS.md", "docs/COPILOT_USAGE.md",
      "docs/DATA_ORGANIZATION.md", "docs/SCHEMAS_AND_VALIDATION.md",
      "docs/LINTING_AND_CI_STANDARDS.md", "docs/AI_PROJECT_REVIEW_CHECKLIST.md">>

RECOMMENDED_DOCS == <<"docs/STATUS.md">>

\* the README text read by _load_readme: None if the file is missing or unreadable
NoReadme == [state |-> "none", mentions |-> {}]
_load_readme(tree) == IF tree.readme.state = "text" THEN tree.readme ELSE NoReadme

\* _find_unlinked: a document is linked when the lower-cased README contains
\* its lower-cased relative path or base name; a mention is a document and
\* the form in which the README names it
_find_unlinked(existing_required, readme_text) ==
    IF readme_text.state = "none" THEN <<>>
    ELSE SelectSeq(existing_required,
                   LAMBDA rel : ~\E m \in readme_text.mentions :
                                    m.doc = rel /\ m.form \in {"path", "name", "PATH", "NAME"})

\* audit of audit_docs.py
audit_docs(tree) ==
    LET missing_required == PathsMissing(tree, REQUIRED_DOCS)
        readme_text      == _load_readme(tree)
        existing_required ==
            SelectSeq(REQUIRED_DOCS, LAMBDA doc : doc \notin Range(missing_required))
    IN  [target |-> TargetRoot,
         missing_required |-> missing_required,
         missing_recommended |-> PathsMissing(tree, RECOMMENDED_DOCS),
         readme_missing |-> readme_text.state = "none",
         unlinked_required |-> _find_unlinked(existing_required, readme_text)]

\* DocsAuditResult.is_compliant
DocsIsCompliant(res) ==
    res.missing_required = <<>> /\ ~res.readme_missing /\ res.unlinked_required = <<>>

\* DocsAuditResult.to_json
DocsToJson(res) ==
    [target |-> res.target,
     missing_required |-> res.missing_required,
     missing_recommended |-> res.missing_recommended,
     readme_missing |-> res.readme_missing,
     unlinked_required |-> res.unlinked_required,
     is_compliant |-> DocsIsCompliant(res)]

\* return 0 if result.is_compliant else 1
AuditExitCode(is_compliant) == IF is_compliant THEN 0 ELSE 1

\* ---- input universes ----

\* a tree without its removed paths and everything beneath them
ParentOf(rel) ==
    CASE rel \in {"data/raw", "data/processed", "data/prompts", "data/outputs",
                  "data/cache", "data/embeddings"} -> "data"
      [] rel \in {"config/prompts.yaml", "config/models.yaml"} -> "config"
      [] rel \in Range(REQUIRED_DOCS) \cup Range(RECOMMENDED_DOCS) -> "docs"
      [] OTHER -> ""

Without(paths, removed) == {rel \in paths : rel \notin removed /\ ParentOf(rel) \notin removed}

SubsetsUpTo(S, n) == {R \in SUBSET S : Cardinality(R) <= n}

ProjectPaths ==
    Range(PROJECT_REQUIRED_DIRS) \cup Range(PROJECT_REQUIRED_FILES)
    \cup Range(PROJECT_RECOMMENDED_FILES)

\* complete projects short of at most MaxMissing paths, with the three
\* outcomes of the schema validation
ProjectTrees ==
    {[present |-> Without(ProjectPaths, removed), ajv |-> ajv] :
        removed \in SubsetsUpTo(ProjectPaths, MaxMissing), ajv \in {"no_script", "ok", "fail"}}

ProjectArgs == [json : BOOLEAN, validate_configs : BOOLEAN]

DocsPaths == {"docs"} \cup Range(REQUIRED_DOCS) \cup Range(RECOMMENDED_DOCS)

\* README.md: missing, unreadable, or a text naming all required documents
\* but at most MaxMissing of them, all in the same form
Readmes ==
    {[state |-> st, mentions |-> {}] : st \in {"missing", "unreadable"}}
    \cup {[state |-> "text",
           mentions |-> {[doc |-> d, form |-> form] : d \in Range(REQUIRED_DOCS) \ unlinked}] :
            unlinked \in SubsetsUpTo(Range(REQUIRED_DOCS), MaxMissing),
            form \in {"path", "name", "NAME"}}

DocsTrees ==
    {[present |-> Without(DocsPaths, removed), readme |-> readme] :
        removed \in SubsetsUpTo(DocsPaths, MaxMissing), readme \in Readmes}

DocsArgs == [json : {FALSE}]

ToolingRootFiles ==
    {".pre-commit-config.yaml", "pyproject.toml", "package.json", "Makefile", "mypy.ini"}

LangSuffixes == {".py", ".js", ".ts", ".c"}

\* repositories with source files of at most MaxLangs languages
ToolingRepos ==
    {[files |-> files, workflows |-> workflows,
      sources |-> [i \in DOMAIN SetToSeq(suffixes) |->
                       [kind |-> "file", suffix |-> SetToSeq(suffixes)[i], ignored |-> FALSE,
                        read |-> "ok", prompts |-> 0]],
      tests |-> tests, hooks |-> hooks] :
        files \in SUBSET ToolingRootFiles,
        workflows \in {{}, {CiWorkflowFile}, {[stem |-> "build", suffix |-> ".yaml"]}},
        suffixes \in SubsetsUpTo(LangSuffixes, MaxLangs),
        tests \in {"absent", "dir", "file"},
        hooks \in {{}, {"ruff"}, {"ruff", "pydoclint"}}}

\* same_process: the second run is a second call in the process of the first
ToolingArgs == [json : {FALSE}, same_process : BOOLEAN]

NoProject == [present |-> {}]
NoArgs == [json |-> FALSE]

\* no path-list audit in progress
IdleAudits ==
    /\ auditor = "none"
    /\ audited = NoProject
    /\ aargs = NoArgs
    /\ aruns = <<>>

\* one of the three audits is about to run on a tree
InitAudits ==
    /\ aruns = <<>>
    /\ \/ auditor = "structure" /\ audited \in ProjectTrees /\ aargs \in ProjectArgs
       \/ auditor = "docs" /\ audited \in DocsTrees /\ aargs \in DocsArgs
       \/ auditor = "tooling" /\ audited \in ToolingRepos /\ aargs \in ToolingArgs

\* one run of a command: the result it built, what it printed, its exit code
Run(res, printed, code, lang_order) ==
    [result |-> res, printed |-> printed, exit_code |-> code, lang_order |-> lang_order]

\* main of audit_ai_project.py, run on the tree; it may be run a second time
ProjectMain ==
    /\ auditor = "structure"
    /\ Len(aruns) < 2
    /\ LET res == ProjectResult(audited, aargs)
       IN  aruns' = Append(aruns, Run(res, ProjectPrinted(res, aargs),
                                      ProjectExitCode(res, aargs), <<>>))
    /\ UNCHANGED <<auditor, audited, aargs>>

\* main of audit_docs.py
DocsMain ==
    /\ auditor = "docs"
    /\ Len(aruns) < 2
    /\ LET res == audit_docs(audited)
       IN  aruns' = Append(aruns, Run(res, DocsToJson(res),
                                      AuditExitCode(DocsIsCompliant(res)), <<>>))
    /\ UNCHANGED <<auditor, audited, aargs>>

\* main of audit_tooling.py; the iteration order of the set langs is the
\* same in two calls of one process and any order in another process
ToolingMain ==
    /\ auditor = "tooling"
    /\ Len(aruns) < 2
    /\ \E lang_order \in Orders(_detect_languages(audited, EmptyTree)) :
           /\ (aruns # <<>> /\ aargs.same_process) => lang_order = aruns[1].lang_order
           /\ LET res == audit_tooling(audited, EmptyTree, lang_order)
              IN  aruns' = Append(aruns, Run(res, ToolingToJson(res),
                                             AuditExitCode(ToolingIsCompliant(res)),
                                             lang_order))
    /\ UNCHANGED <<auditor, audited, aargs>>

(***************************************************************************)
(* scripts/audit_llm_usage.py and the file enumeration of                  *)
(* scripts/prompt_extract.py: scans of the source files of a tree.         *)
(***************************************************************************)

MaxScanFiles == 2
MaxSizeCap == 1

SCAN_EXTENSIONS == {".py", ".ts", ".tsx", ".js"}

\* IGNORE_DIRS of audit_llm_usage.py
LLM_IGNORE_DIRS ==
    {".git", ".hg", ".svn", "__pycache__", "node_modules", "dist", "build", "venv", ".venv"}

\* IGNORE_DIRS of prompt_extract.py
PROMPT_IGNORE_DIRS == {".git", ".hg", ".svn", "__pycache__", "venv", ".venv"}

RAW_LLM_PATTERNS ==
    << [pattern |-> "openai.ChatCompletion.create",
        message |-> "Raw OpenAI ChatCompletion call; use standard client abstraction."],
       [pattern |-> "openai.Completion.create",
        message |-> "Raw OpenAI Completion call; use standard client abstraction."],
       [pattern |-> "client.chat.completions.create",
        message |-> "Raw Azure OpenAI chat call; use standard client abstraction."],
       [pattern |-> "client.completions.create",
        message |-> "Raw Azure OpenAI completion call; use standard client abstraction."] >>

\* an entry of the scanned tree, in rglob order:
\*   dirs, name: the directories from the root down to the entry, its name
\*   kind:       "file" for a regular file, "dir" otherwise
\*   stat, size: the outcome of path.stat() ("ok" or "fails") and st_size
\*   read:       the outcome of read_text: "ok", "oserror" or "undecodable"
\*   lines:      the lines of the text, each the set of the pattern texts it
\*               contains, as [pattern, form] with form the letter case used
\*   prompts:    the number of prompt assignments of sufficient length

\* path.parts of root / dirs / name
PathParts(root_parts, entry) == root_parts \o entry.dirs \o <<entry.name>>

\* variant: only the directory directly under the root is tested
LlmYieldsTopLevel(root_parts, entry) ==
    /\ entry.kind = "file"
    /\ SuffixOf(entry.name) \in SCAN_EXTENSIONS
    /\ ~(entry.dirs # <<>> /\ entry.dirs[1] \in LLM_IGNORE_DIRS)

\* _iter_code_files of audit_llm_usage.py yields the entry
LlmYields(root_parts, entry) ==
    /\ entry.kind = "file"
    /\ SuffixOf(entry.name) \in SCAN_EXTENSIONS
    /\ ~\E part \in Range(PathParts(root_parts, entry)) : part \in LLM_IGNORE_DIRS

Finding(path, line, message) == [path |-> path, line |-> line, message |-> message]

\* variant: the pattern is searched as written
PatternInLineCaseSensitive(pattern, line) ==
    \E m \in line : m.pattern = pattern /\ m.form = "exact"

\* pattern.lower() in line_lower
PatternInLine(pattern, line) ==
    \E m \in line : m.pattern = pattern /\ m.form \in {"exact", "lower", "upper"}

\* the loop of _scan_file over the lines and the patterns
RECURSIVE ScanLines(_, _, _, _)
ScanLines(path, lines, lineno, k) ==
    IF lineno > Len(lines) THEN <<>>
    ELSE IF k > Len(RAW_LLM_PATTERNS) THEN ScanLines(path, lines, lineno + 1, 1)
    ELSE (IF PatternInLine(RAW_LLM_PATTERNS[k].pattern, lines[lineno])
          THEN <<Finding(path, lineno, RAW_LLM_PATTERNS[k].message)>>
          ELSE <<>>)
         \o ScanLines(path, lines, lineno, k + 1)

\* read_text raises UnicodeDecodeError, which _scan_file does not catch
ScanFileRaises(entry, max_size) ==
    /\ ~(max_size # NoCap /\ (entry.stat = "fails" \/ entry.size > max_size))
    /\ entry.read = "undecodable"

\* _scan_file(path, RAW_LLM_PATTERNS, max_size_bytes), when it returns
_scan_file(path, entry, max_size) ==
    IF max_size # NoCap /\ entry.stat = "fails"
    THEN <<Finding(path, 0, "Unable to stat file for scanning.")>>
    ELSE IF max_size # NoCap /\ entry.size > max_size THEN <<>>
    ELSE IF entry.read = "oserror"
    THEN <<Finding(path, 0, "Unable to read file for scanning.")>>
    ELSE ScanLines(path, entry.lines, 1, 1)

\* the loop of audit over _iter_code_files: [raised, yielded, findings]; a
\* file is named by its position in the tree
RECURSIVE LlmAuditLoop(_, _, _, _)
LlmAuditLoop(tree, i, max_size, acc) ==
    IF i > Len(tree.files) THEN acc
    ELSE IF ~LlmYields(tree.root_parts, tree.files[i])
    THEN LlmAuditLoop(tree, i + 1, max_size, acc)
    ELSE IF ScanFileRaises(tree.files[i], max_size)
    THEN [acc EXCEPT !.raised = TRUE, !.yielded = Append(@, i)]
    ELSE LlmAuditLoop(tree, i + 1, max_size,
                      [acc EXCEPT !.yielded = Append(@, i),
                                  !.findings = @ \o _scan_file(i, tree.files[i], max_size)])

\* audit(target_root, max_size_bytes) of audit_llm_usage.py
audit_llm_usage(tree, max_size) ==
    LlmAuditLoop(tree, 1, max_size, [raised |-> FALSE, yielded |-> <<>>, findings |-> <<>>])

\* LlmAuditResult.is_compliant
LlmIsCompliant(findings) == findings = <<>>

\* the entry as extract_prompts sees it
AsSource(root_parts, entry) ==
    [kind |-> entry.kind, suffix |-> SuffixOf(entry.name),
     ignored |-> \E part \in Range(PathParts(root_parts, entry)) : part \in PROMPT_IGNORE_DIRS,
     read |-> entry.read, prompts |-> entry.prompts]

AsSources(tree) == [i \in DOMAIN tree.files |-> AsSource(tree.root_parts, tree.files[i])]

\* ---- input universes ----

Mention(k, form) == [pattern |-> RAW_LLM_PATTERNS[k].pattern, form |-> form]

\* a readable file with one raw call and one prompt
RawCallFile(dirs, name) ==
    [dirs |-> dirs, name |-> name, kind |-> "file", stat |-> "ok", size |-> 1, read |-> "ok",
     lines |-> << {Mention(1, "exact")} >>, prompts |-> 1]

ScanDirs == {<<>>, <<"src">>, <<"build">>, <<"src", "node_modules", "pkg">>, <<".venv", "lib">>}

ScanEntries ==
    {RawCallFile(dirs, name) : dirs \in ScanDirs, name \in {"app.py", "app.js", "llm.txt"}}
    \cup {[RawCallFile(<<"lib">>, "app.py") EXCEPT !.stat = st, !.read = rd] :
            st \in {"ok", "fails"}, rd \in {"oserror", "undecodable"}}
    \cup {[RawCallFile(<<"lib">>, "app.py") EXCEPT !.stat = "fails"],
          [RawCallFile(<<"lib">>, "app.py") EXCEPT !.size = MaxSizeCap + 1],
          [RawCallFile(<<"lib">>, "app.py") EXCEPT !.kind = "dir"],
          [RawCallFile(<<"lib">>, "app.py") EXCEPT !.lines = << {} >>, !.prompts = 0],
          [RawCallFile(<<"lib">>, "app.py") EXCEPT
               !.lines = << {}, {Mention(1, "lower"), Mention(3, "upper")} >>]}

\* trees of at most MaxScanFiles entries with different paths, under a root
\* with or without a directory called build on its own path
ScanTrees ==
    {[root_parts |-> root_parts, files |-> files] :
        root_parts \in {<<"home", "repo">>, <<"home", "build", "repo">>},
        files \in {fs \in SeqUpTo(ScanEntries, MaxScanFiles) :
                      \A i, j \in DOMAIN fs :
                          (fs[i].dirs = fs[j].dirs /\ fs[i].name = fs[j].name) => i = j}}

NoOutcome == [state |-> "none", yielded |-> <<>>, findings |-> <<>>, exit_code |-> NoExit]

IdleScan ==
    /\ scanned = [root_parts |-> <<>>, files |-> <<>>]
    /\ max_size_bytes = NoCap
    /\ llm_out = NoOutcome
    /\ prompts_out = NoOutcome

\* the two scans are about to run on a tree
InitScan ==
    /\ scanned \in ScanTrees
    /\ max_size_bytes \in {NoCap} \cup 1..MaxSizeCap
    /\ llm_out = NoOutcome
    /\ prompts_out = NoOutcome

\* main of audit_llm_usage.py: audit, exit code
LlmMainReturns ==
    /\ llm_out.state = "none"
    /\ ~audit_llm_usage(scanned, max_size_bytes).raised
    /\ LET res == audit_llm_usage(scanned, max_size_bytes)
       IN  llm_out' = [state |-> "returned", yielded |-> res.yielded, findings |-> res.findings,
                       exit_code |-> AuditExitCode(LlmIsCompliant(res.findings))]
    /\ UNCHANGED <<scanned, max_size_bytes, prompts_out>>

\* main of audit_llm_usage.py leaves with the exception of _scan_file
LlmMainRaises ==
    /\ llm_out.state = "none"
    /\ audit_llm_usage(scanned, max_size_bytes).raised
    /\ llm_out' = [NoOutcome EXCEPT !.state = "raised",
                                    !.yielded = audit_llm_usage(scanned, max_size_bytes).yielded]
    /\ UNCHANGED <<scanned, max_size_bytes, prompts_out>>

\* extract_prompts(target_root) returns
ExtractPromptsReturns ==
    /\ prompts_out.state = "none"
    /\ ~ExtractRaises(AsSources(scanned))
    /\ prompts_out' =
           [state |-> "returned",
            yielded |-> SelectSeq([i \in DOMAIN scanned.files |-> i],
                                  LAMBDA i : PromptYields(AsSources(scanned)[i])),
            findings |-> extract_prompts([sources |-> AsSources(scanned)]).prompts,
            exit_code |-> 0]
    /\ UNCHANGED <<scanned, max_size_bytes, llm_out>>

\* extract_prompts(target_root) leaves with the exception of read_text
ExtractPromptsRaises ==
    /\ prompts_out.state = "none"
    /\ ExtractRaises(AsSources(scanned))
    /\ prompts_out' = [NoOutcome EXCEPT !.state = "raised"]
    /\ UNCHANGED <<scanned, max_size_bytes, llm_out>>

(***************************************************************************)
(* scripts/prompt_merge.py: the command line, from the three source files  *)
(* to the output file.                                                     *)
(***************************************************************************)

\* a source file: missing, unreadable (read_text raises OSError), malformed
\* (not YAML), or a YAML document whose root is null, a list or a mapping;
\* a mapping is the list of its [key, value] pairs in document order, a key
\* being a string or an integer written as text
StrKey(text) == [kind |-> "str", text |-> text]
IntKey(text) == [kind |-> "int", text |-> text]
YamlFile(state, pairs) == [state |-> state, pairs |-> pairs]

\* str(key)
StrOf(key) == key.text

\* the loop of _load_yaml over data_map.items(): result[str(key)] = value
RECURSIVE NormalizeKeys(_, _, _)
NormalizeKeys(pairs, i, acc) ==
    IF i > Len(pairs) THEN acc
    ELSE NormalizeKeys(pairs, i + 1, Put(acc, StrOf(pairs[i].key), pairs[i].value))

\* the outcome of a call of _load_yaml: the exception raised ("none" if it
\* returns), the mapping returned, whether the warning was printed
Loaded(exc, value, warned) == [exc |-> exc, value |-> value, warned |-> warned]

\* variant: a missing optional file is an error like a missing required one
LoadYamlAllRequired(file, required) ==
    CASE file.state = "missing" -> Loaded("FileNotFoundError", EmptyDict, FALSE)
      [] file.state = "unreadable" -> Loaded("RuntimeError", EmptyDict, FALSE)
      [] file.state = "malformed" -> Loaded("YAMLError", EmptyDict, FALSE)
      [] file.state = "null" -> Loaded("none", EmptyDict, FALSE)
      [] file.state = "list" -> Loaded("ValueError", EmptyDict, FALSE)
      [] OTHER -> Loaded("none", NormalizeKeys(file.pairs, 1, EmptyDict), FALSE)

\* _load_yaml(path, required, label)
_load_yaml(file, required) ==
    CASE file.state = "missing" ->
             IF required THEN Loaded("FileNotFoundError", EmptyDict, FALSE)
             ELSE Loaded("none", EmptyDict, TRUE)
      [] file.state = "unreadable" -> Loaded("RuntimeError", EmptyDict, FALSE)
      [] file.state = "malformed" -> Loaded("YAMLError", EmptyDict, FALSE)
      [] file.state = "null" -> Loaded("none", EmptyDict, FALSE)
      [] file.state = "list" -> Loaded("ValueError", EmptyDict, FALSE)
      [] OTHER -> Loaded("none", NormalizeKeys(file.pairs, 1, EmptyDict), FALSE)

\* the three loads of main, in order, up to the first exception: the
\* exception, the mappings loaded and the files warned about
LoadSources(files) ==
    LET core     == _load_yaml(files.core, TRUE)
        template == _load_yaml(files.template, FALSE)
        project  == _load_yaml(files.project, FALSE)
        exc      == IF core.exc # "none" THEN core.exc
                    ELSE IF template.exc # "none" THEN template.exc
                    ELSE project.exc
    IN  [exc |-> exc,
         core |-> core.value, template |-> template.value, project |-> project.value,
         warnings |-> IF core.exc # "none" THEN <<>>
                      ELSE (IF template.warned THEN <<"template">> ELSE <<>>)
                           \o (IF template.exc = "none" /\ project.warned
                               THEN <<"project">> ELSE <<>>)]

\* except (FileNotFoundError, ValueError, RuntimeError)
CaughtByMain == {"FileNotFoundError", "ValueError", "RuntimeError"}

\* sorted() over the keys a merged mapping can have: code point order
SortedKeys == <<"7", "a">>

\* variant: only the first key is dumped
WriteYamlFirstKey(data) ==
    YamlFile("mapping",
             LET keys == SelectSeq(SortedKeys, LAMBDA k : k \in DOMAIN data)
             IN  [i \in DOMAIN keys \cap {1} |->
                     [key |-> StrKey(keys[i]), value |-> data[keys[i]]]])

\* write_yaml(data, path): the file holds yaml.safe_dump(data, sort_keys=True)
write_yaml(data) ==
    YamlFile("mapping",
             LET keys == SelectSeq(SortedKeys, LAMBDA k : k \in DOMAIN data)
             IN  [i \in DOMAIN keys |-> [key |-> StrKey(keys[i]), value |-> data[keys[i]]]])

\* ---- input universes ----

YamlKeys == {StrKey("a"), StrKey("7"), IntKey("7")}
YamlPairs == [key : YamlKeys, value : {ScalarValue(n) : n \in Scalars}]

\* mappings of at most two pairs with different keys
YamlMappings ==
    {<<>>} \cup {<<p>> : p \in YamlPairs}
    \cup {pq \in YamlPairs \X YamlPairs : pq[1].key # pq[2].key}

YamlFiles ==
    {YamlFile(st, <<>>) : st \in {"missing", "unreadable", "malformed", "null", "list"}}
    \cup {YamlFile("mapping", pairs) : pairs \in YamlMappings}

\* the output file before the run: absent, or left by an earlier run
OldOutput == YamlFile("mapping", << [key |-> StrKey("old"), value |-> ScalarValue(1)] >>)
OutputsBefore == {YamlFile("missing", <<>>), OldOutput}

NoRun ==
    [state |-> "idle", merge_calls |-> 0, report |-> EmptyReport, warnings |-> <<>>,
     exit_code |-> NoExit]

IdleMergeMain ==
    /\ pm_files = [core |-> YamlFile("missing", <<>>), template |-> YamlFile("missing", <<>>),
                   project |-> YamlFile("missing", <<>>), output |-> YamlFile("missing", <<>>)]
    /\ pm_args = [dry_run |-> FALSE]
    /\ pm_output = YamlFile("missing", <<>>)
    /\ pm_run = NoRun

\* prompt_merge is about to run on three source files
InitMergeMain ==
    /\ pm_files \in [core : YamlFiles, template : YamlFiles, project : YamlFiles,
                     output : OutputsBefore]
    /\ pm_args \in [dry_run : BOOLEAN]
    /\ pm_output = pm_files.output
    /\ pm_run = [NoRun EXCEPT !.state = "call"]

\* main: the sources load, the merge is written to the output file
MergeMainWrites ==
    /\ pm_run.state = "call"
    /\ LoadSources(pm_files).exc = "none"
    /\ ~pm_args.dry_run
    /\ LET loaded == LoadSources(pm_files)
           rep    == merge_prompts(loaded.core, loaded.template, loaded.project)
       IN  /\ pm_run' = [state |-> "done", merge_calls |-> 1, report |-> rep,
                         warnings |-> loaded.warnings, exit_code |-> 0]
           /\ pm_output' = write_yaml(rep.merged)
    /\ UNCHANGED <<pm_files, pm_args>>

\* main --dry-run: the sources load, the merge is reported only
MergeMainDryRun ==
    /\ pm_run.state = "call"
    /\ LoadSources(pm_files).exc = "none"
    /\ pm_args.dry_run
    /\ LET loaded == LoadSources(pm_files)
           rep    == merge_prompts(loaded.core, loaded.template, loaded.project)
       IN  pm_run' = [state |-> "done", merge_calls |-> 1, report |-> rep,
                      warnings |-> loaded.warnings, exit_code |-> 0]
    /\ UNCHANGED <<pm_files, pm_args, pm_output>>

\* main: a load raises an exception that main catches; return 1
MergeMainFails ==
    /\ pm_run.state = "call"
    /\ LoadSources(pm_files).exc \in CaughtByMain
    /\ pm_run' = [NoRun EXCEPT !.state = "done", !.warnings = LoadSources(pm_files).warnings,
                               !.exit_code = 1]
    /\ UNCHANGED <<pm_files, pm_args, pm_output>>

\* main: yaml.safe_load raises yaml.YAMLError, which main does not catch
MergeMainRaises ==
    /\ pm_run.state = "call"
    /\ LoadSources(pm_files).exc \notin CaughtByMain \cup {"none"}
    /\ pm_run' = [NoRun EXCEPT !.state = "raised", !.warnings = LoadSources(pm_files).warnings]
    /\ UNCHANGED <<pm_files, pm_args, pm_output>>

(***************************************************************************)
(* scripts/fix_audit_findings.py: running the audit tasks.                 *)
(***************************************************************************)

MaxTasks == 2
MaxReturnCode == 2

\* an AuditTask together with what its surroundings hold for it: command is
\* None or a command line, path is None or a path that exists or not, and
\* proc is what subprocess.run does with the command: it starts the program
\* and gets its return code, or cannot start it (the interpreter is not on
\* PATH, the working directory is gone) and raises OSError
AuditTask(command, path, proc) == [command |-> command, path |-> path, proc |-> proc]
Proc(launches, returncode) == [launches |-> launches, returncode |-> returncode]

TaskResult(status, code, stdout) ==
    [status |-> status, exit_code |-> code, stdout |-> stdout]

\* task.command is None or (task.path is not None and not task.path.exists())
TaskIsMissing(task) == task.command = "None" \/ task.path = "absent"

\* run_task reaches subprocess.run, which raises
RunTaskRaises(task, dry_run) ==
    ~TaskIsMissing(task) /\ ~dry_run /\ ~task.proc.launches

\* run_task calls subprocess.run
RunTaskExecutes(task, dry_run) == ~TaskIsMissing(task) /\ ~dry_run

\* run_task(task, cwd=cwd, dry_run=dry_run), when it returns
run_task(task, dry_run) ==
    IF TaskIsMissing(task) THEN TaskResult("missing", NoExit, "")
    ELSE IF dry_run THEN TaskResult("skipped", 0, "DRY-RUN")
    ELSE TaskResult(IF task.proc.returncode = 0 THEN "ok" ELSE "fail",
                    task.proc.returncode, "output")

\* the tasks of run_sequence that run_task is called for: all of them, or
\* those up to the first one whose call raises
Reached(tasks, dry_run) ==
    {i \in DOMAIN tasks : \A j \in 1..(i - 1) : ~RunTaskRaises(tasks[j], dry_run)}

\* the commands run_sequence has passed to subprocess.run, in order
Executed(tasks, dry_run) ==
    SelectSeq([i \in DOMAIN tasks |-> i],
              LAMBDA i : i \in Reached(tasks, dry_run) /\ RunTaskExecutes(tasks[i], dry_run))

\* ---- input universes ----

Procs ==
    {Proc(TRUE, n) : n \in 0..MaxReturnCode} \cup {Proc(FALSE, 0)}

AuditTasks ==
    {AuditTask(command, path, proc) :
         command \in {"None", "cmd"}, path \in {"None", "exists", "absent"}, proc \in Procs}

TaskLists == UNION {[1..n -> AuditTasks] : n \in 1..MaxTasks}

IdleFix ==
    /\ fx_tasks = <<>>
    /\ fx_dry_run = FALSE
    /\ fx_results = <<>>
    /\ fx_executed = <<>>
    /\ fx_pc = "idle"

\* run_sequence is about to run a list of tasks
InitFix ==
    /\ fx_tasks \in TaskLists
    /\ fx_dry_run \in BOOLEAN
    /\ fx_results = <<>>
    /\ fx_executed = <<>>
    /\ fx_pc = "call"

\* run_sequence(tasks, target_root=..., dry_run=...) returns the results
RunSequenceReturns ==
    /\ fx_pc = "call"
    /\ \A i \in DOMAIN fx_tasks : ~RunTaskRaises(fx_tasks[i], fx_dry_run)
    /\ fx_results' = [i \in DOMAIN fx_tasks |-> run_task(fx_tasks[i], fx_dry_run)]
    /\ fx_executed' = Executed(fx_tasks, fx_dry_run)
    /\ fx_pc' = "done"
    /\ UNCHANGED <<fx_tasks, fx_dry_run>>

\* run_sequence: subprocess.run raises in a call of run_task, the exception
\* leaves the list comprehension and no result is returned
RunSequenceRaises ==
    /\ fx_pc = "call"
    /\ \E i \in DOMAIN fx_tasks : RunTaskRaises(fx_tasks[i], fx_dry_run)
    /\ fx_executed' = Executed(fx_tasks, fx_dry_run)
    /\ fx_pc' = "raised"
    /\ UNCHANGED <<fx_tasks, fx_dry_run, fx_results>>

(***************************************************************************)
(* scripts/fix_audit_findings.py: main with --run (neither --guide nor a   *)
(* bare --list), from the selected tasks to the exit code.                 *)
(***************************************************************************)

MaxSelected == 2
MaxIterations == 2

\* variant: --max-iterations counts without --loop too
IterationsIgnoringLoop(args) == args.max_iterations

\* iterations = args.max_iterations if args.loop else 1
Iterations(args) == IF args.loop THEN args.max_iterations ELSE 1

\* failures = [r for r in results if r.is_failure]
Failures(results) == {i \in DOMAIN results : results[i].status = "fail"}

\* missing = [r for r in results if r.is_missing]
Missing(results) == {i \in DOMAIN results : results[i].status = "missing"}

\* the condition of the break at the end of an iteration
LoopBreaks(results, args) ==
    Failures(results) = {} /\ (~args.fail_on_missing \/ Missing(results) = {})

\* variant: a missing task outranks a failed one
FixExitCodeMissingFirst(results, args) ==
    IF args.fail_on_missing /\ Missing(results) # {} THEN 2
    ELSE IF Failures(results) # {} THEN 1
    ELSE 0

\* the value main returns after the loop
FixExitCode(results, args) ==
    IF Failures(results) # {} THEN 1
    ELSE IF args.fail_on_missing /\ Missing(results) # {} THEN 2
    ELSE 0

\* write_plan(plan_path, results) unless --skip-plan: the plan file holds one
\* section per result, with its key and status
PlanOf(results) == [i \in DOMAIN results |-> results[i].status]
PlanAfter(plan, results, args) == IF args.skip_plan THEN plan ELSE PlanOf(results)
NoPlan == << "absent" >>

\* ---- input universes ----

\* what running a command can do in an iteration: start and return 0 or 1,
\* or not start
MainProcs == {Proc(TRUE, 0), Proc(TRUE, 1), Proc(FALSE, 0)}

\* the tasks of KNOWN_TASKS after resolve_tasks: a command with its script
\* path, no command and no path, or no command with a path
SelectableTasks ==
    {AuditTask("cmd", "exists", proc) : proc \in MainProcs}
    \cup {AuditTask("cmd", "absent", Proc(TRUE, 0)),
          AuditTask("None", "None", Proc(TRUE, 0)),
          AuditTask("None", "exists", Proc(TRUE, 0)),
          AuditTask("None", "absent", Proc(TRUE, 0))}

\* filter_tasks(tasks, only_keys): the tasks selected, none when --only names
\* no known key
SelectedLists == UNION {[1..n -> SelectableTasks] : n \in 0..MaxSelected}

\* --max-iterations is any integer; 0 stands for the values range() is empty for
FixArgs ==
    [fail_on_missing : BOOLEAN, loop : BOOLEAN, max_iterations : 0..MaxIterations,
     skip_plan : BOOLEAN]

\* between two iterations the same commands are run again and may end
\* differently
NextRound(tasks) ==
    {again \in [DOMAIN tasks -> SelectableTasks] :
         \A i \in DOMAIN tasks :
             /\ again[i].command = tasks[i].command
             /\ again[i].path = tasks[i].path}

IdleFixMain ==
    /\ fx_args = [fail_on_missing |-> FALSE, loop |-> FALSE, max_iterations |-> 0,
                  skip_plan |-> FALSE]
    /\ fx_iterations = 0
    /\ fx_exit = NoExit
    /\ fx_plan = NoPlan

\* main has parsed --run and selected the tasks; the loop is about to start
InitFixMain ==
    /\ fx_tasks \in SelectedLists
    /\ fx_dry_run \in BOOLEAN
    /\ fx_args \in FixArgs
    /\ fx_results = <<>>
    /\ fx_executed = <<>>
    /\ fx_pc = "loop"
    /\ fx_iterations = 0
    /\ fx_exit = NoExit
    /\ fx_plan = NoPlan

\* the body of the loop up to the break test: results = run_once(), the
\* summary is printed, the plan is written
IterationRuns ==
    /\ fx_pc = "loop"
    /\ fx_iterations < Iterations(fx_args)
    /\ \A i \in DOMAIN fx_tasks : ~RunTaskRaises(fx_tasks[i], fx_dry_run)
    /\ fx_results' = [i \in DOMAIN fx_tasks |-> run_task(fx_tasks[i], fx_dry_run)]
    /\ fx_executed' = Executed(fx_tasks, fx_dry_run)
    /\ fx_iterations' = fx_iterations + 1
    /\ fx_plan' = PlanAfter(fx_plan, fx_results', fx_args)
    /\ UNCHANGED <<fx_dry_run, fx_args>>

\* an iteration after which the loop goes on
IterationContinues ==
    /\ IterationRuns
    /\ ~LoopBreaks(fx_results', fx_args)
    /\ fx_iterations' < Iterations(fx_args)
    /\ fx_tasks' \in NextRound(fx_tasks)
    /\ UNCHANGED <<fx_pc, fx_exit>>

\* the last iteration, by break or because range() is used up, and the
\* return of main
IterationEnds ==
    /\ IterationRuns
    /\ LoopBreaks(fx_results', fx_args) \/ fx_iterations' = Iterations(fx_args)
    /\ fx_exit' = FixExitCode(fx_results', fx_args)
    /\ fx_pc' = "done"
    /\ UNCHANGED fx_tasks

\* an iteration in which subprocess.run raises: the exception leaves
\* run_sequence and main
IterationRaises ==
    /\ fx_pc = "loop"
    /\ fx_iterations < Iterations(fx_args)
    /\ \E i \in DOMAIN fx_tasks : RunTaskRaises(fx_tasks[i], fx_dry_run)
    /\ fx_executed' = Executed(fx_tasks, fx_dry_run)
    /\ fx_pc' = "raised"
    /\ UNCHANGED <<fx_tasks, fx_dry_run, fx_results, fx_args, fx_iterations, fx_exit, fx_plan>>

\* range(iterations) is empty: the loop body never runs, results is still []
\* and main returns
MainSkipsLoop ==
    /\ fx_pc = "loop"
    /\ fx_iterations = 0
    /\ Iterations(fx_args) <= 0
    /\ fx_exit' = FixExitCode(fx_results, fx_args)
    /\ fx_pc' = "done"
    /\ UNCHANGED <<fx_tasks, fx_dry_run, fx_results, fx_executed, fx_args, fx_iterations, fx_plan>>

(***************************************************************************)
(* scripts/validate_config.py: validate_document.                          *)
(***************************************************************************)

MaxAssertions == 2

\* the assertions a schema can make, in the order iter_errors reports them
Assertions == 1..MaxAssertions

\* a YAML config file: "unreadable" (missing too: read_text raises OSError),
\* "malformed" (yaml.safe_load raises), "list" (root not a mapping), "null"
\* (no document: loaded as {}) or "mapping"; fails is the set of assertions
\* its content does not meet, model_ok whether the Pydantic model accepts it
ConfigFile(state, fails, model_ok) == [state |-> state, fails |-> fails, model_ok |-> model_ok]

\* a schema file: "unreadable", "malformed" (json.loads raises) or "schema",
\* a JSON Schema object making the assertions asserts
ConfigSchema(state, asserts) == [state |-> state, asserts |-> asserts]

\* load_yaml(data_path) raises
LoadYamlRaises(doc) == doc.state \in {"unreadable", "malformed", "list"}

\* load_schema(schema_path) raises
LoadConfigSchemaRaises(schema) == schema.state \in {"unreadable", "malformed"}

\* list(jsonschema_errors(schema, data)): one issue per violated assertion
jsonschema_errors(schema, doc) ==
    SelectSeq([i \in 1..MaxAssertions |-> i],
              LAMBDA a : a \in schema.asserts /\ a \in doc.fails)

\* an entry of errors: the stage that reports it and the assertion, 0 if none
ConfigError(stage, assertion) == [stage |-> stage, assertion |-> assertion]

\* model_class.model_validate(data): at most one "Pydantic: ..." entry
ModelErrors(doc) == IF doc.model_ok THEN <<>> ELSE <<ConfigError("Pydantic", 0)>>

ValidationResult(ok, errors, stages) == [ok |-> ok, errors |-> errors, stages |-> stages]

\* variant: the model is validated only when the schema found nothing
ValidateDocumentSchemaFirst(doc, schema) ==
    IF LoadYamlRaises(doc)
    THEN ValidationResult(FALSE, <<ConfigError("YAML error", 0)>>, <<>>)
    ELSE IF LoadConfigSchemaRaises(schema)
    THEN ValidationResult(FALSE, <<ConfigError("Schema load error", 0)>>, <<>>)
    ELSE LET schema_issues == jsonschema_errors(schema, doc)
             errors == [i \in DOMAIN schema_issues |-> ConfigError("Schema", schema_issues[i])]
                       \o (IF schema_issues = <<>> THEN ModelErrors(doc) ELSE <<>>)
         IN  ValidationResult(errors = <<>>, errors,
                              IF schema_issues = <<>> THEN <<"schema", "model">>
                              ELSE <<"schema">>)

\* validate_document(label, data_path, schema_path, model_class): ok, errors
\* and the validation stages that ran
validate_document(doc, schema) ==
    IF LoadYamlRaises(doc)
    THEN ValidationResult(FALSE, <<ConfigError("YAML error", 0)>>, <<>>)
    ELSE IF LoadConfigSchemaRaises(schema)
    THEN ValidationResult(FALSE, <<ConfigError("Schema load error", 0)>>, <<>>)
    ELSE LET schema_issues == jsonschema_errors(schema, doc)
             errors == [i \in DOMAIN schema_issues |-> ConfigError("Schema", schema_issues[i])]
                       \o ModelErrors(doc)
         IN  ValidationResult(errors = <<>>, errors, <<"schema", "model">>)

\* ---- input universes ----

ConfigFiles ==
    {ConfigFile(st, {}, TRUE) : st \in {"unreadable", "malformed", "list"}}
    \cup {ConfigFile(st, fails, ok) :
              st \in {"null", "mapping"}, fails \in SUBSET Assertions, ok \in BOOLEAN}

ConfigSchemas ==
    {ConfigSchema(st, {}) : st \in {"unreadable", "malformed"}}
    \cup {ConfigSchema("schema", asserts) : asserts \in SUBSET Assertions}

NoValidation == ValidationResult(FALSE, <<>>, <<>>)

IdleValidate ==
    /\ vc_doc = ConfigFile("unreadable", {}, TRUE)
    /\ vc_schema = ConfigSchema("unreadable", {})
    /\ vc_result = NoValidation
    /\ vc_pc = "idle"

\* validate_document is about to be called on a config file and a schema file
InitValidate ==
    /\ vc_doc \in ConfigFiles
    /\ vc_schema \in ConfigSchemas
    /\ vc_result = NoValidation
    /\ vc_pc = "call"

\* result = validate_document(label, data_path, schema_path, model_class)
ValidateDocument ==
    /\ vc_pc = "call"
    /\ vc_result' = validate_document(vc_doc, vc_schema)
    /\ vc_pc' = "done"
    /\ UNCHANGED <<vc_doc, vc_schema>>

(***************************************************************************)
(* scripts/audit_data_layout.py: the lru_cache of _load_output_schema over *)
(* the audit calls of one process.                                         *)
(***************************************************************************)

MaxPaths == 5

\* @lru_cache(maxsize=4)
SchemaCacheSize == 4

\* the schema paths the calls of one process name
SchemaPaths == 1..MaxPaths

\* the cache is the list of its entries [path, schema], least recently used
\* first; CacheIndex is the position of a path in it, 0 if it is not cached
CacheIndex(cache, path) ==
    IF \E i \in DOMAIN cache : cache[i].path = path
    THEN CHOOSE i \in DOMAIN cache : cache[i].path = path
    ELSE 0

\* the list without its i-th entry
DropEntry(cache, i) == SubSeq(cache, 1, i - 1) \o SubSeq(cache, i + 1, Len(cache))

\* variant: a hit does not renew the entry, the oldest insertion is evicted
CachedLoadFifo(cache, disk, path) ==
    LET i == CacheIndex(cache, path)
    IN  IF i # 0
        THEN [hit |-> TRUE, read |-> FALSE, raised |-> FALSE, schema |-> cache[i].schema,
              cache |-> cache]
        ELSE IF LoadSchemaRaises(disk[path])
        THEN [hit |-> FALSE, read |-> TRUE, raised |-> TRUE, schema |-> NoSchema,
              cache |-> cache]
        ELSE LET loaded == _load_output_schema(disk[path])
                 kept   == IF Len(cache) = SchemaCacheSize THEN Tail(cache) ELSE cache
             IN  [hit |-> FALSE, read |-> TRUE, raised |-> FALSE, schema |-> loaded,
                  cache |-> Append(kept, [path |-> path, schema |-> loaded])]

\* a call of the cached _load_output_schema(schema_path): a hit returns the
\* cached value and renews the entry; a miss reads the file and, unless the
\* read raises, stores the value, evicting the least recently used entry of
\* a full cache
CachedLoad(cache, disk, path) ==
    LET i == CacheIndex(cache, path)
    IN  IF i # 0
        THEN [hit |-> TRUE, read |-> FALSE, raised |-> FALSE, schema |-> cache[i].schema,
              cache |-> Append(DropEntry(cache, i), cache[i])]
        ELSE IF LoadSchemaRaises(disk[path])
        THEN [hit |-> FALSE, read |-> TRUE, raised |-> TRUE, schema |-> NoSchema,
              cache |-> cache]
        ELSE LET loaded == _load_output_schema(disk[path])
                 kept   == IF Len(cache) = SchemaCacheSize THEN Tail(cache) ELSE cache
             IN  [hit |-> FALSE, read |-> TRUE, raised |-> FALSE, schema |-> loaded,
                  cache |-> Append(kept, [path |-> path, schema |-> loaded])]

\* the schema lookup of audit(target_root, None, metadata_schema) in a
\* process whose cache is `cache`: _check_output_metadata loads the schema
\* only if data/outputs exists
CachedLookup(tree, cache, disk, path) ==
    IF ~Exists(tree, <<"data", "outputs">>)
    THEN [looked |-> FALSE, hit |-> FALSE, read |-> FALSE, raised |-> FALSE,
          schema |-> NoSchema, cache |-> cache]
    ELSE LET load == CachedLoad(cache, disk, path)
         IN  [looked |-> TRUE, hit |-> load.hit, read |-> load.read, raised |-> load.raised,
              schema |-> load.schema, cache |-> load.cache]

\* what the audit returns with the schema the lookup gave
CachedAuditResult(tree, lookup) ==
    IF lookup.raised THEN EmptyResult
    ELSE audit_data_layout(tree, NoCap, lookup.schema).result

\* ---- input universes ----

\* one output file that lacks metadata keys, one that is complete, or no
\* data/outputs at all
CacheTrees ==
    {EmptyTree}
    \cup {[data |-> "dir", children |-> [n \in {"outputs"} |-> [kind |-> "dir", inner |-> {}]],
           order |-> <<"outputs">>, outputs |-> <<doc>>] :
          doc \in {[kind |-> "object", keys |-> {"run_id"}, timestamp |-> "none"],
                   [kind |-> "object", keys |-> MetadataKeySet, timestamp |-> TsZ]}}

\* the states the file at the first path goes through; the other paths hold
\* a schema that requires the metadata keys
EditedSchemaFiles ==
    {SchemaFile(st, {}, FALSE) : st \in {"unreadable", "malformed", "not_mapping"}}
    \cup {SchemaFile("mapping", MetadataKeySet, FALSE)}

SchemaDisks ==
    {[path \in SchemaPaths |->
          IF path = 1 THEN first ELSE SchemaFile("mapping", MetadataKeySet, FALSE)] :
     first \in EditedSchemaFiles}

\* the latest audit call: its inputs, what the schema lookup did and what
\* the call returned
NoCall ==
    [path |-> 0, tree |-> EmptyTree, on_disk |-> NoSchema, looked |-> FALSE,
     hit |-> FALSE, read |-> FALSE, raised |-> FALSE, schema |-> NoSchema,
     result |-> EmptyResult]

IdleCache ==
    /\ sc_disk = [path \in SchemaPaths |-> SchemaFile("unreadable", {}, FALSE)]
    /\ sc_cache = <<>>
    /\ sc_used = <<>>
    /\ sc_last = NoCall
    /\ sc_started = FALSE

\* a process that has imported audit_data_layout: the cache is empty
InitCache ==
    /\ sc_disk \in SchemaDisks
    /\ sc_cache = <<>>
    /\ sc_used = <<>>
    /\ sc_last = NoCall
    /\ sc_started = TRUE

\* the record of a call
CallRecord(tree, path, lookup) ==
    [path |-> path, tree |-> tree, on_disk |-> sc_disk[path],
     looked |-> lookup.looked, hit |-> lookup.hit, read |-> lookup.read,
     raised |-> lookup.raised, schema |-> lookup.schema,
     result |-> CachedAuditResult(tree, lookup)]

\* the paths looked up so far without an exception, least recently used first
UsedAfter(used, path) == Append(SelectSeq(used, LAMBDA q : q # path), path)

\* an audit call that returns
CachedAuditReturns ==
    /\ sc_started
    /\ \E tree \in CacheTrees, path \in SchemaPaths :
           LET call == CachedLookup(tree, sc_cache, sc_disk, path)
           IN  /\ ~call.raised
               /\ sc_cache' = call.cache
               /\ sc_used' = IF call.looked THEN UsedAfter(sc_used, path) ELSE sc_used
               /\ sc_last' = CallRecord(tree, path, call)
    /\ UNCHANGED <<sc_disk, sc_started>>

\* an audit call in which json.loads of the schema file raises
CachedAuditRaises ==
    /\ sc_started
    /\ \E tree \in CacheTrees, path \in SchemaPaths :
           LET call == CachedLookup(tree, sc_cache, sc_disk, path)
           IN  /\ call.raised
               /\ sc_last' = CallRecord(tree, path, call)
    /\ UNCHANGED <<sc_disk, sc_cache, sc_used, sc_started>>

\* between two calls the schema file at the first path is rewritten or removed
RewriteSchemaFile ==
    /\ sc_started
    /\ \E file \in EditedSchemaFiles \ {sc_disk[1]} :
           sc_disk' = [sc_disk EXCEPT ![1] = file]
    /\ UNCHANGED <<sc_cache, sc_used, sc_last, sc_started>>

\* no merge in progress: the state of the other components' specifications
IdleMerge ==
    /\ sources = [core |-> EmptyDict, template |-> EmptyDict, project |-> EmptyDict]
    /\ report = EmptyReport
    /\ mpc = "idle"

\* the caller holds three arbitrary mappings and is about to call merge_prompts
InitMerge ==
    /\ sources \in [core : PromptMappings, template : PromptMappings, project : PromptMappings]
    /\ report = EmptyReport
    /\ mpc = "call"

\* report = merge_prompts(core, template, project)
MergePrompts ==
    /\ mpc = "call"
    /\ report' = merge_prompts(sources.core, sources.template, sources.project)
    /\ mpc' = "done"
    /\ UNCHANGED sources

mergeVars == <<sources, report, mpc>>
dataVars == <<target, max_output_files, metadata_schema, result, opened, dpc>>
checkVars == <<repo, members, payload, exit_code, cpc>>
auditVars == <<auditor, audited, aargs, aruns>>
scanVars == <<scanned, max_size_bytes, llm_out, prompts_out>>
pmVars == <<pm_files, pm_args, pm_output, pm_run>>
fixVars == <<fx_tasks, fx_dry_run, fx_results, fx_executed, fx_pc>>
fixMainVars == <<fx_args, fx_iterations, fx_exit, fx_plan>>
vcVars == <<vc_doc, vc_schema, vc_result, vc_pc>>
cacheVars == <<sc_disk, sc_cache, sc_used, sc_last, sc_started>>
vars == <<mergeVars, dataVars, checkVars, auditVars, scanVars, pmVars, fixVars, fixMainVars, vcVars, cacheVars>>

NextMerge ==
    MergePrompts /\ UNCHANGED <<dataVars, checkVars, auditVars, scanVars, pmVars, fixVars, fixMainVars, vcVars, cacheVars>>

NextData ==
    \/ AuditReturns
         /\ UNCHANGED <<mergeVars, checkVars, auditVars, scanVars, pmVars, fixVars, fixMainVars, vcVars, cacheVars>>
    \/ AuditRaises
         /\ UNCHANGED <<mergeVars, checkVars, auditVars, scanVars, pmVars, fixVars, fixMainVars, vcVars, cacheVars>>

NextCheck ==
    \/ MainReturns
         /\ UNCHANGED <<mergeVars, dataVars, auditVars, scanVars, pmVars, fixVars, fixMainVars, vcVars, cacheVars>>
    \/ MainRaises
         /\ UNCHANGED <<mergeVars, dataVars, auditVars, scanVars, pmVars, fixVars, fixMainVars, vcVars, cacheVars>>

NextAudits ==
    \/ ProjectMain
         /\ UNCHANGED <<mergeVars, dataVars, checkVars, scanVars, pmVars, fixVars, fixMainVars, vcVars, cacheVars>>
    \/ DocsMain
         /\ UNCHANGED <<mergeVars, dataVars, checkVars, scanVars, pmVars, fixVars, fixMainVars, vcVars, cacheVars>>
    \/ ToolingMain
         /\ UNCHANGED <<mergeVars, dataVars, checkVars, scanVars, pmVars, fixVars, fixMainVars, vcVars, cacheVars>>

NextScan ==
    \/ LlmMainReturns
         /\ UNCHANGED <<mergeVars, dataVars, checkVars, auditVars, pmVars, fixVars, fixMainVars, vcVars, cacheVars>>
    \/ LlmMainRaises
         /\ UNCHANGED <<mergeVars, dataVars, checkVars, auditVars, pmVars, fixVars, fixMainVars, vcVars, cacheVars>>
    \/ ExtractPromptsReturns
         /\ UNCHANGED <<mergeVars, dataVars, checkVars, auditVars, pmVars, fixVars, fixMainVars, vcVars, cacheVars>>
    \/ ExtractPromptsRaises
         /\ UNCHANGED <<mergeVars, dataVars, checkVars, auditVars, pmVars, fixVars, fixMainVars, vcVars, cacheVars>>

NextMergeMain ==
    \/ MergeMainWrites
         /\ UNCHANGED <<mergeVars, dataVars, checkVars, auditVars, scanVars, fixVars, fixMainVars, vcVars, cacheVars>>
    \/ MergeMainDryRun
         /\ UNCHANGED <<mergeVars, dataVars, checkVars, auditVars, scanVars, fixVars, fixMainVars, vcVars, cacheVars>>
    \/ MergeMainFails
         /\ UNCHANGED <<mergeVars, dataVars, checkVars, auditVars, scanVars, fixVars, fixMainVars, vcVars, cacheVars>>
    \/ MergeMainRaises
         /\ UNCHANGED <<mergeVars, dataVars, checkVars, auditVars, scanVars, fixVars, fixMainVars, vcVars, cacheVars>>

NextFix ==
    \/ RunSequenceReturns
         /\ UNCHANGED <<mergeVars, dataVars, checkVars, auditVars, scanVars, pmVars, fixMainVars, vcVars, cacheVars>>
    \/ RunSequenceRaises
         /\ UNCHANGED <<mergeVars, dataVars, checkVars, auditVars, scanVars, pmVars, fixMainVars, vcVars, cacheVars>>

NextFixMain ==
    \/ IterationContinues
         /\ UNCHANGED <<mergeVars, dataVars, checkVars, auditVars, scanVars, pmVars, vcVars, cacheVars>>
    \/ IterationEnds
         /\ UNCHANGED <<mergeVars, dataVars, checkVars, auditVars, scanVars, pmVars, vcVars, cacheVars>>
    \/ IterationRaises
         /\ UNCHANGED <<mergeVars, dataVars, checkVars, auditVars, scanVars, pmVars, vcVars, cacheVars>>
    \/ MainSkipsLoop
         /\ UNCHANGED <<mergeVars, dataVars, checkVars, auditVars, scanVars, pmVars, vcVars, cacheVars>>

NextValidate ==
    ValidateDocument /\ UNCHANGED <<mergeVars, dataVars, checkVars, auditVars, scanVars, pmVars, fixVars, fixMainVars, cacheVars>>

NextCache ==
    \/ CachedAuditReturns
         /\ UNCHANGED <<mergeVars, dataVars, checkVars, auditVars, scanVars, pmVars, fixVars, fixMainVars, vcVars>>
    \/ CachedAuditRaises
         /\ UNCHANGED <<mergeVars, dataVars, checkVars, auditVars, scanVars, pmVars, fixVars, fixMainVars, vcVars>>
    \/ RewriteSchemaFile
         /\ UNCHANGED <<mergeVars, dataVars, checkVars, auditVars, scanVars, pmVars, fixVars, fixMainVars, vcVars>>

\* the initial states of each component's specification: its own inputs,
\* the other components idle
StartMerge ==
    InitMerge
    /\ IdleData /\ IdleCheck /\ IdleAudits /\ IdleScan /\ IdleMergeMain
    /\ IdleFix /\ IdleFixMain /\ IdleValidate /\ IdleCache
StartStray ==
    InitStray
    /\ IdleMerge /\ IdleCheck /\ IdleAudits /\ IdleScan /\ IdleMergeMain
    /\ IdleFix /\ IdleFixMain /\ IdleValidate /\ IdleCache
StartOutputs ==
    InitOutputs
    /\ IdleMerge /\ IdleCheck /\ IdleAudits /\ IdleScan /\ IdleMergeMain
    /\ IdleFix /\ IdleFixMain /\ IdleValidate /\ IdleCache
StartCheck ==
    InitCheck
    /\ IdleMerge /\ IdleAudits /\ IdleScan /\ IdleMergeMain /\ IdleFix
    /\ IdleFixMain /\ IdleValidate /\ IdleCache
StartAudits ==
    InitAudits
    /\ IdleMerge /\ IdleData /\ IdleCheck /\ IdleScan /\ IdleMergeMain
    /\ IdleFix /\ IdleFixMain /\ IdleValidate /\ IdleCache
StartScan ==
    InitScan
    /\ IdleMerge /\ IdleData /\ IdleCheck /\ IdleAudits /\ IdleMergeMain
    /\ IdleFix /\ IdleFixMain /\ IdleValidate /\ IdleCache
StartMergeMain ==
    InitMergeMain
    /\ IdleMerge /\ IdleData /\ IdleCheck /\ IdleAudits /\ IdleScan
    /\ IdleFix /\ IdleFixMain /\ IdleValidate /\ IdleCache
StartFix ==
    InitFix
    /\ IdleMerge /\ IdleData /\ IdleCheck /\ IdleAudits /\ IdleScan
    /\ IdleMergeMain /\ IdleFixMain /\ IdleValidate /\ IdleCache
StartFixMain ==
    InitFixMain
    /\ IdleMerge /\ IdleData /\ IdleCheck /\ IdleAudits /\ IdleScan
    /\ IdleMergeMain /\ IdleValidate /\ IdleCache
StartValidate ==
    InitValidate
    /\ IdleMerge /\ IdleData /\ IdleCheck /\ IdleAudits /\ IdleScan
    /\ IdleMergeMain /\ IdleFix /\ IdleFixMain /\ IdleCache
StartCache ==
    InitCache
    /\ IdleMerge /\ IdleData /\ IdleCheck /\ IdleAudits /\ IdleScan
    /\ IdleMergeMain /\ IdleFix /\ IdleFixMain /\ IdleValidate

SpecMerge == StartMerge /\ [][NextMerge]_vars

SpecStray == StartStray /\ [][NextData]_vars

SpecOutputs == StartOutputs /\ [][NextData]_vars

SpecCheck == StartCheck /\ [][NextCheck]_vars

SpecAudits == StartAudits /\ [][NextAudits]_vars

SpecScan == StartScan /\ [][NextScan]_vars

SpecMergeMain == StartMergeMain /\ [][NextMergeMain]_vars

SpecFix == StartFix /\ [][NextFix]_vars

SpecFixMain == StartFixMain /\ [][NextFixMain]_vars

SpecFixMainFair == StartFixMain /\ [][NextFixMain]_vars /\ WF_vars(NextFixMain)

SpecValidate == StartValidate /\ [][NextValidate]_vars

SpecCache == StartCache /\ [][NextCache]_vars

(***************************************************************************)
(* Properties of merge_prompts                                             *)
(***************************************************************************)

\* source `name` defines key k
Defines(name, k) == k \in DOMAIN sources[name]

\* the names of the sources that define k, in the order core, template, project
DefiningSources(k) == SelectSeq(SourceNames, LAMBDA name : Defines(name, k))

\* the keys defined by at least one source
AllSourceKeys == UNION {DOMAIN sources[SourceNames[i]] : i \in DOMAIN SourceNames}

\* the last source, in the order core, template, project, that defines k
LastSource(k) == DefiningSources(k)[Len(DefiningSources(k))]

\* C1: the merged key set is the union of the three sources' key sets, and
\* for every key the merged value and source_by_key are the value and the
\* name of the last source (core, template, project) that contains the key.
C1_LastWriterWins ==
    mpc = "done" =>
        /\ DOMAIN report.merged = AllSourceKeys
        /\ DOMAIN report.source_by_key = AllSourceKeys
        /\ \A k \in AllSourceKeys :
               /\ report.merged[k] = sources[LastSource(k)][k]
               /\ report.source_by_key[k] = LastSource(k)

\* a key of core and project, not of template, with two different values
C1_Witness ==
    /\ mpc = "done"
    /\ \E k \in PromptKeys :
           /\ Defines("core", k) /\ ~Defines("template", k) /\ Defines("project", k)
           /\ sources.core[k] # sources.project[k]
           /\ report.merged[k] = sources.project[k]

\* C2: for every key defined by two or more sources, overrides[k] is the
\* list of the names of all sources that define k, in evaluation order and
\* without repetition.
C2_OverrideLedger ==
    mpc = "done" =>
        \A k \in AllSourceKeys :
            Len(DefiningSources(k)) >= 2 =>
                /\ k \in DOMAIN report.overrides
                /\ report.overrides[k] = DefiningSources(k)

\* one key defined by all three sources, another by core and project only
C2_Witness ==
    /\ mpc = "done"
    /\ \E k \in DOMAIN report.overrides : report.overrides[k] = <<"core", "template", "project">>
    /\ \E k \in DOMAIN report.overrides : report.overrides[k] = <<"core", "project">>

\* C3: overrides has an entry exactly for the keys defined by at least two
\* sources; a key defined by one source only is absent from it.
C3_SingleSourceKeysAbsent ==
    mpc = "done" =>
        \A k \in PromptKeys :
            k \in DOMAIN report.overrides <=> Len(DefiningSources(k)) >= 2

\* a key defined by one source only next to an overridden key
C3_Witness ==
    /\ mpc = "done"
    /\ \E k \in AllSourceKeys : Len(DefiningSources(k)) = 1 /\ k \notin DOMAIN report.overrides
    /\ \E k \in AllSourceKeys : Len(DefiningSources(k)) = 2 /\ k \in DOMAIN report.overrides

\* the sources other than the last one in which k is a nested mapping
LowerNestedSources(k) ==
    {name \in Range(DefiningSources(k)) :
        name # LastSource(k) /\ sources[name][k].kind = "mapping"}

\* C4: no deep merge. When a key is a nested mapping in several sources, the
\* merged value is the highest-priority source's value in its entirety and
\* no nested entry of a lower-priority source alone survives in it.
C4_NoDeepMerge ==
    mpc = "done" =>
        \A k \in AllSourceKeys :
            (sources[LastSource(k)][k].kind = "mapping" /\ LowerNestedSources(k) # {}) =>
                /\ report.merged[k] = sources[LastSource(k)][k]
                /\ \A name \in LowerNestedSources(k) :
                       \A sk \in DOMAIN sources[name][k].entries :
                           sk \notin DOMAIN sources[LastSource(k)][k].entries =>
                               sk \notin DOMAIN report.merged[k].entries

\* core holds a nested entry that project's nested value for the key lacks
C4_Witness ==
    /\ mpc = "done"
    /\ \E k \in PromptKeys :
           /\ Defines("core", k) /\ Defines("project", k)
           /\ sources.core[k].kind = "mapping" /\ sources.project[k].kind = "mapping"
           /\ \E sk \in DOMAIN sources.core[k].entries :
                  /\ sk \notin DOMAIN sources.project[k].entries
                  /\ sk \notin DOMAIN report.merged[k].entries
           /\ DOMAIN sources.project[k].entries # {}

(***************************************************************************)
(* Properties of the data-layout audit                                     *)
(***************************************************************************)

Min(a, b) == IF a <= b THEN a ELSE b

\* the number of *.json files under data/outputs
NumOutputFiles == Len(target.outputs)

\* the issues reported for the output file at position i
IssuesOf(i) == SelectSeq(result.metadata_issues, LAMBDA issue : issue.path = i)

TruncationIssues == SelectSeq(result.metadata_issues, LAMBDA issue : issue.kind = "truncated")

\* C5: with a cap K over n matching files exactly min(K, n) files are
\* validated, namely the first ones, no later file is opened, exactly one
\* truncation issue is appended iff n > K, and the scan never raises once it
\* has started (only loading the schema, before the first file, can raise).
C5_TruncationAtCap ==
    /\ (dpc = "done" /\ max_output_files # NoCap) =>
           /\ opened = [i \in 1..Min(max_output_files, NumOutputFiles) |-> i]
           /\ Len(TruncationIssues) = (IF NumOutputFiles > max_output_files THEN 1 ELSE 0)
           /\ \A i \in 1..NumOutputFiles : i > max_output_files => IssuesOf(i) = <<>>
    /\ dpc = "raised" => (LoadSchemaRaises(metadata_schema) /\ opened = <<>>)

\* more files than the cap: the scan stopped at the cap with one truncation issue
C5_Witness ==
    /\ dpc = "done"
    /\ max_output_files = 1
    /\ NumOutputFiles = 2
    /\ opened = <<1>>
    /\ Len(TruncationIssues) = 1

\* the children of data/ that the policy calls stray, as paths relative to
\* the parent of data/
StrayByPolicy ==
    {<<"data", name>> :
        name \in {n \in DOMAIN target.children :
                    \/ /\ target.children[n].kind = "dir"
                       /\ n \notin ALLOWED_TOP_LEVEL_IN_DATA
                    \/ /\ target.children[n].kind # "dir"
                       /\ n \notin ALLOWED_TOP_LEVEL_FILES_IN_DATA}}

\* C6: stray_items holds, once each and as data/<name>, exactly the direct
\* children of data/ that are a directory not in the allowed-directory set or
\* a non-directory not in the allowed-file set; nothing allowed and nothing
\* deeper than one level.
C6_StrayItemsExact ==
    dpc = "done" =>
        /\ Range(result.stray_items) = StrayByPolicy
        /\ Len(result.stray_items) = Cardinality(StrayByPolicy)

\* a directory named like an allowed file is stray, and the entry inside an
\* allowed directory is not reported
C6_Witness ==
    /\ dpc = "done"
    /\ result.stray_items = << <<"data", "README.md">> >>
    /\ "raw" \in DOMAIN target.children
    /\ target.children["raw"].kind = "dir"
    /\ target.children["raw"].inner # {}

\* the metadata keys an issue names
NamedKeys(issue) ==
    IF issue.kind \in {"missing_keys", "schema"} THEN Range(issue.detail) \cap MetadataKeySet
    ELSE {}

\* C7: for an output document that is a JSON object lacking n >= 1 of the
\* required metadata keys, exactly one issue is reported for the file and it
\* names all n absent keys, whether or not a schema is configured.
C7_OneIssueNamesAllAbsentKeys ==
    dpc = "done" =>
        \A i \in Range(opened) :
            (target.outputs[i].kind = "object" /\ MissingKeys(target.outputs[i]) # <<>>) =>
                /\ Len(IssuesOf(i)) = 1
                /\ Range(MissingKeys(target.outputs[i])) \subseteq NamedKeys(IssuesOf(i)[1])

\* the number of files a scan validates: all of them, or the cap if smaller
ExpectedValidated ==
    IF max_output_files = NoCap THEN NumOutputFiles
    ELSE Min(max_output_files, NumOutputFiles)

\* C8: a malformed JSON file yields exactly one parse-failure issue and no
\* further check on it; the scan goes on, so every other file within the cap
\* is validated (all files without a cap) and gets its own issues, and the
\* audit returns a result (no output file makes it raise).
C8_MalformedFileIsolated ==
    /\ dpc = "done" =>
           /\ Len(opened) = ExpectedValidated
           /\ \A i \in Range(opened) :
                  IF target.outputs[i].kind = "malformed"
                  THEN IssuesOf(i) = <<Issue(i, "parse", <<>>)>>
                  ELSE \A j \in DOMAIN IssuesOf(i) : IssuesOf(i)[j].kind # "parse"
    /\ dpc = "raised" => LoadSchemaRaises(metadata_schema)

\* a malformed file first, then a sibling that is validated and reported too
C8_Witness ==
    /\ dpc = "done"
    /\ NumOutputFiles = 2
    /\ target.outputs[1].kind = "malformed"
    /\ target.outputs[2].kind = "object"
    /\ opened = <<1, 2>>
    /\ Len(IssuesOf(1)) = 1
    /\ Len(IssuesOf(2)) = 1
    /\ IssuesOf(2)[1].kind = "missing_keys"

(***************************************************************************)
(* Properties of the consolidated report                                   *)
(***************************************************************************)

\* C9: the report's passed is true iff every member check's status is pass,
\* and main returns 0 exactly when passed is true and 1 otherwise.
C9_PassedIffAllPass ==
    cpc = "done" =>
        /\ payload.passed <=> (\A i \in DOMAIN payload.checks : payload.checks[i].status = "pass")
        /\ exit_code = 0 <=> payload.passed
        /\ exit_code = 1 <=> ~payload.passed

\* one member passes, another fails: the report fails with exit code 1
C9_Witness ==
    /\ cpc = "done"
    /\ Len(payload.checks) = 3
    /\ payload.checks[1].status = "pass"
    /\ payload.checks[2].status = "fail"
    /\ ~payload.passed
    /\ exit_code = 1

\* the prompt_extract entry of the report
PromptCheck == payload.checks[CHOOSE i \in DOMAIN payload.checks : payload.checks[i].name = "prompt_extract"]

\* C10: the prompt_extract check has status pass whatever the number of
\* prompts found, so the report passes whenever the other checks pass.
C10_PromptExtractInformational ==
    cpc = "done" =>
        /\ \E i \in DOMAIN payload.checks : payload.checks[i].name = "prompt_extract"
        /\ PromptCheck.status = "pass"
        /\ payload.passed <=>
               (\A i \in DOMAIN payload.checks :
                    payload.checks[i].name # "prompt_extract" => payload.checks[i].status = "pass")

\* prompts were found and the report still passes
C10_Witness ==
    /\ cpc = "done"
    /\ PromptCheck.details.prompt_count > 0
    /\ PromptCheck.status = "pass"
    /\ payload.passed

\* the entry of the report with the given name
CheckNamed(name) ==
    payload.checks[CHOOSE i \in DOMAIN payload.checks : payload.checks[i].name = name]

\* C11 as stated: the details of every member check (tooling, data_layout,
\* prompt_extract) equal that member result's to_json output.
C11_DetailsVerbatim ==
    cpc = "done" =>
        /\ CheckNamed("tooling").details = ToolingToJson(members.tooling)
        /\ CheckNamed("data_layout").details = DataToJson(members.data_layout)
        /\ CheckNamed("prompt_extract").details = PromptToJson(members.prompt_extract)

\* C11, amended: the details of the tooling and data_layout checks equal the
\* member result's to_json output; the details of the prompt_extract check are
\* a summary, the number of prompts found and the target, without the
\* findings themselves.
C11_DetailsVerbatimButPrompts ==
    cpc = "done" =>
        /\ CheckNamed("tooling").details = ToolingToJson(members.tooling)
        /\ CheckNamed("data_layout").details = DataToJson(members.data_layout)
        /\ DOMAIN CheckNamed("prompt_extract").details = {"prompt_count", "target"}
        /\ CheckNamed("prompt_extract").details.prompt_count = Len(members.prompt_extract.prompts)
        /\ CheckNamed("prompt_extract").details.target = members.prompt_extract.target

\* a run whose members all found something: a missing required tooling file,
\* a metadata issue and an inline prompt
C11_Witness ==
    /\ cpc = "done"
    /\ members.tooling.missing_required # <<>>
    /\ members.tooling.missing_recommended # <<>>
    /\ members.data_layout.metadata_issues # <<>>
    /\ members.prompt_extract.prompts # <<>>
    /\ CheckNamed("data_layout").details.metadata_issues = members.data_layout.metadata_issues
    /\ CheckNamed("prompt_extract").details.prompt_count = Len(members.prompt_extract.prompts)

(***************************************************************************)
(* Properties of the path-list audits                                      *)
(***************************************************************************)

\* every required directory and file of the structure standard exists and
\* the schema validation, if asked for, does not fail
ProjectRequiredPresent ==
    /\ Range(PROJECT_REQUIRED_DIRS) \cup Range(PROJECT_REQUIRED_FILES) \subseteq audited.present
    /\ aargs.validate_configs => audited.ajv = "ok"

\* every required document exists and the README names it
DocsRequiredPresent ==
    /\ Range(REQUIRED_DOCS) \subseteq audited.present
    /\ audited.readme.state = "text"
    /\ \A d \in Range(REQUIRED_DOCS) : \E m \in audited.readme.mentions : m.doc = d

\* the pre-commit configuration, a CI workflow and the required files of
\* every language of the repository exist
ToolingRequiredPresent ==
    /\ ".pre-commit-config.yaml" \in audited.files
    /\ \E w \in audited.workflows : w.suffix \in {".yml", ".yaml"}
    /\ \A i \in DOMAIN audited.sources :
           LET suffix == audited.sources[i].suffix
           IN  /\ suffix = ".py" => "pyproject.toml" \in audited.files
               /\ suffix \in {".js", ".ts"} => "package.json" \in audited.files
               /\ suffix = ".ts" => "tsconfig.json" \in audited.files
               /\ suffix = ".c" => audited.files \cap {"CMakeLists.txt", "Makefile"} # {}

\* C12: in the structure, tooling and docs audits is_compliant is a function
\* of the required lists and blocking issues only, and a tree with every
\* required item present (and linked, for docs) is compliant whatever
\* recommended files, directories or hooks are missing.
C12_RecommendedNeverBlocks ==
    \A i \in DOMAIN aruns :
        LET run == aruns[i]
        IN  /\ auditor = "structure" =>
                /\ run.printed.is_compliant <=>
                       (run.result.missing_dirs = <<>> /\ run.result.missing_files = <<>>)
                /\ ProjectRequiredPresent => run.printed.is_compliant /\ run.exit_code = 0
            /\ auditor = "docs" =>
                /\ run.printed.is_compliant <=>
                       /\ run.result.missing_required = <<>>
                       /\ run.result.unlinked_required = <<>>
                       /\ ~run.result.readme_missing
                /\ DocsRequiredPresent => run.printed.is_compliant /\ run.exit_code = 0
            /\ auditor = "tooling" =>
                /\ run.printed.is_compliant <=> run.result.missing_required = <<>>
                /\ ToolingRequiredPresent => run.printed.is_compliant /\ run.exit_code = 0

\* a Python repository with its required tooling, without tests directory,
\* without the recommended files and hooks: compliant
C12_Witness ==
    /\ auditor = "tooling"
    /\ aruns # <<>>
    /\ ToolingRequiredPresent
    /\ "mypy.ini" \in Range(aruns[1].result.missing_recommended)
    /\ "pre-commit hook: pydoclint" \in Range(aruns[1].result.missing_recommended)
    /\ aruns[1].result.missing_recommended_dirs = <<"tests">>
    /\ aruns[1].printed.is_compliant
    /\ aruns[1].exit_code = 0

C14_RunsIdentical ==
    Len(aruns) = 2 =>
        /\ aruns[1].result = aruns[2].result
        /\ aruns[1].printed = aruns[2].printed
        /\ aruns[1].exit_code = aruns[2].exit_code

(***************************************************************************)
(* Properties of the source scans                                          *)
(***************************************************************************)

\* the findings of the LLM-usage audit for the file at position i
LlmFindingsOf(i) == SelectSeq(llm_out.findings, LAMBDA f : f.path = i)

\* _scan_file calls stat on the file and stat fails
StatFails(entry) == max_size_bytes # NoCap /\ entry.stat = "fails"

\* _scan_file reads the file and the read fails
ReadFails(entry) ==
    /\ ~StatFails(entry)
    /\ ~(max_size_bytes # NoCap /\ entry.size > max_size_bytes)
    /\ entry.read # "ok"

\* C15: for every candidate file whose stat or read fails the LLM-usage audit
\* emits exactly one file-level Finding (line 0), goes on with the remaining
\* files and returns a result; no per-file read failure aborts the scan.
C15_FailedFileGivesOneFinding ==
    llm_out.state # "none" =>
        /\ llm_out.state = "returned"
        /\ \A i \in DOMAIN scanned.files :
               (/\ LlmYields(scanned.root_parts, scanned.files[i])
                /\ StatFails(scanned.files[i]) \/ ReadFails(scanned.files[i])) =>
                   /\ Len(LlmFindingsOf(i)) = 1
                   /\ LlmFindingsOf(i)[1].line = 0

\* C16: in the LLM-usage audit and in the prompt extraction a path is scanned
\* only if it is a regular file, its suffix is in the extension set and none
\* of its path segments is in IGNORE_DIRS; no file at any depth beneath an
\* ignored directory and no file with another extension contributes a finding.
C16_OnlyEligibleFilesScanned ==
    /\ \A i \in Range(llm_out.yielded) \cup {f.path : f \in Range(llm_out.findings)} :
           /\ scanned.files[i].kind = "file"
           /\ SuffixOf(scanned.files[i].name) \in SCAN_EXTENSIONS
           /\ Range(scanned.files[i].dirs) \cap LLM_IGNORE_DIRS = {}
    /\ \A i \in Range(prompts_out.yielded) \cup {f.path : f \in Range(prompts_out.findings)} :
           /\ scanned.files[i].kind = "file"
           /\ SuffixOf(scanned.files[i].name) \in PROMPT_EXTENSIONS
           /\ Range(scanned.files[i].dirs) \cap PROMPT_IGNORE_DIRS = {}

\* a file with a raw call and a prompt two levels beneath node_modules next
\* to an eligible file: the LLM-usage audit reports the eligible file only,
\* the prompt extraction, which does not ignore node_modules, reports both
C16_Witness ==
    /\ llm_out.state = "returned"
    /\ prompts_out.state = "returned"
    /\ Len(scanned.files) = 2
    /\ scanned.files[1].dirs = <<"src", "node_modules", "pkg">>
    /\ scanned.files[1].name = "app.py"
    /\ scanned.files[1].lines # << {} >>
    /\ llm_out.yielded = <<2>>
    /\ llm_out.findings # <<>>
    /\ prompts_out.yielded = <<1, 2>>

(***************************************************************************)
(* C17: prompt_merge stops on a fatal configuration error                  *)
(***************************************************************************)

PromptFileNames == {"core", "template", "project"}

\* the core file does not exist, or the root of a source document is not a
\* mapping (a document without content has no root and counts as empty)
FatalConfiguration ==
    \/ pm_files.core.state = "missing"
    \/ \E name \in PromptFileNames : pm_files[name].state = "list"

\* C17: when the core file is missing or the root of any of the three source
\* documents is not a mapping, main is over with exit code 1, merge_prompts
\* has not run and the output file is as it was before the run.
C17_FatalErrorReturns1 ==
    (pm_run.state # "call" /\ FatalConfiguration)
        => /\ pm_run.state = "done"
           /\ pm_run.exit_code = 1
           /\ pm_run.merge_calls = 0
           /\ pm_output = pm_files.output

(***************************************************************************)
(* C18: a missing template or project file is an empty mapping             *)
(***************************************************************************)

\* the file holds a document that loads: a mapping, or nothing
Loads(file) == file.state \in {"mapping", "null"}

\* the mapping a file that loads holds, keys as strings
MappingOf(file) == NormalizeKeys(file.pairs, 1, EmptyDict)

\* the sources that exist, in merge order
ExistingSources ==
    SelectSeq(SourceNames, LAMBDA name : pm_files[name].state # "missing")

\* the merge of the sources that exist: each key with the value of the last
\* existing source that has it
MergeOfExisting ==
    LET has(k) == {i \in DOMAIN ExistingSources : k \in DOMAIN MappingOf(pm_files[ExistingSources[i]])}
        last(k) == CHOOSE i \in has(k) : \A j \in has(k) : j <= i
    IN  [k \in {k \in {"7", "a"} : has(k) # {}} |-> MappingOf(pm_files[ExistingSources[last(k)]])[k]]

\* the core file loads, the template or the project file is missing and
\* the other one is missing too or loads
OptionalSourceMissing ==
    /\ Loads(pm_files.core)
    /\ \E name \in {"template", "project"} : pm_files[name].state = "missing"
    /\ \A name \in {"template", "project"} :
           pm_files[name].state = "missing" \/ Loads(pm_files[name])

\* C18: when the template or the project file is missing and the other
\* sources load, main returns 0 with one warning per missing file, and the
\* output it writes holds the merge of the sources that exist.
C18_MissingOptionalIsEmpty ==
    (pm_run.state # "call" /\ OptionalSourceMissing)
        => /\ pm_run.state = "done"
           /\ pm_run.exit_code = 0
           /\ pm_run.warnings
                 = SelectSeq(<<"template", "project">>,
                             LAMBDA name : pm_files[name].state = "missing")
           /\ pm_run.report.merged = MergeOfExisting
           /\ ~pm_args.dry_run
                 => pm_output.state = "mapping" /\ MappingOf(pm_output) = MergeOfExisting

\* a run without template that wrote the merge of core and project
C18_Witness ==
    /\ pm_run.state = "done"
    /\ pm_files.template.state = "missing"
    /\ pm_files.core.state = "mapping"
    /\ pm_files.project.state = "mapping"
    /\ ~pm_args.dry_run
    /\ DOMAIN MappingOf(pm_output) = {"7", "a"}
    /\ pm_run.report.overrides # EmptyDict

(***************************************************************************)
(* C19: --dry-run leaves the output file alone                             *)
(***************************************************************************)

\* every source loads: the core file holds a document, the other two hold
\* one or are missing
SourcesLoad ==
    /\ Loads(pm_files.core)
    /\ \A name \in {"template", "project"} :
           pm_files[name].state = "missing" \/ Loads(pm_files[name])

\* C19: after main with --dry-run the output file is as it was before the
\* run, whatever the sources hold, and main has returned 0 if the sources
\* load; after main without --dry-run has returned 0, the output file holds
\* exactly the merged mapping of the report.
C19_DryRunNeverWrites ==
    pm_run.state # "call"
        => /\ pm_args.dry_run
                 => /\ pm_output = pm_files.output
                    /\ SourcesLoad => pm_run.state = "done" /\ pm_run.exit_code = 0
           /\ (~pm_args.dry_run /\ pm_run.state = "done" /\ pm_run.exit_code = 0)
                 => /\ pm_output.state = "mapping"
                    /\ MappingOf(pm_output) = pm_run.report.merged
                    /\ Len(pm_output.pairs) = Cardinality(DOMAIN pm_run.report.merged)

\* a dry run over sources that load, with an older output file in place
C19_Witness ==
    /\ pm_run.state = "done"
    /\ pm_args.dry_run
    /\ pm_run.exit_code = 0
    /\ DOMAIN pm_run.report.merged = {"7", "a"}
    /\ pm_files.output = OldOutput
    /\ pm_output = OldOutput

(***************************************************************************)
(* C20: run_task classifies every task                                     *)
(***************************************************************************)

\* the status the classification gives a task
ClassOf(task, dry_run) ==
    IF task.command = "None" \/ task.path = "absent" THEN "missing"
    ELSE IF dry_run THEN "skipped"
    ELSE IF task.proc.launches /\ task.proc.returncode = 0 THEN "ok"
    ELSE "fail"

\* C20: run_task gives every task exactly one of the statuses missing,
\* skipped, ok, fail: missing, with no exit code and nothing executed, iff
\* the command is None or a path is given and does not exist, dry-run or
\* not; otherwise skipped under dry-run with nothing executed; otherwise ok
\* iff the command's exit code is 0 and fail otherwise.
C20_EveryTaskClassified ==
    fx_pc # "call"
        => /\ fx_pc = "done"
           /\ DOMAIN fx_results = DOMAIN fx_tasks
           /\ \A i \in DOMAIN fx_tasks :
                  /\ fx_results[i].status = ClassOf(fx_tasks[i], fx_dry_run)
                  /\ fx_results[i].status = "missing" <=> fx_results[i].exit_code = NoExit
                  /\ fx_results[i].status \in {"missing", "skipped"}
                         <=> (\A j \in DOMAIN fx_executed : fx_executed[j] # i)

(***************************************************************************)
(* C21: the exit code of fix_audit_findings --run                          *)
(***************************************************************************)

\* some result of the latest iteration has the status
SomeStatus(status) == \E i \in DOMAIN fx_results : fx_results[i].status = status

\* the results held are those of the tasks as the latest iteration ran them
ResultsOfLastIteration ==
    fx_iterations >= 1
        => /\ DOMAIN fx_results = DOMAIN fx_tasks
           /\ \A i \in DOMAIN fx_tasks :
                  fx_results[i].status = ClassOf(fx_tasks[i], fx_dry_run)

\* C21: when main --run has returned, its exit code follows from the
\* results of the last iteration alone: 1 if a task failed, otherwise 2 if
\* --fail-on-missing is set and a task is missing, otherwise 0.
C21_ExitCodeFromLastIteration ==
    fx_pc = "done"
        => /\ ResultsOfLastIteration
           /\ SomeStatus("fail") => fx_exit = 1
           /\ (~SomeStatus("fail") /\ fx_args.fail_on_missing /\ SomeStatus("missing"))
                 => fx_exit = 2
           /\ (~SomeStatus("fail") /\ ~(fx_args.fail_on_missing /\ SomeStatus("missing")))
                 => fx_exit = 0

\* a second iteration without failure, after a first one with a failure,
\* gives 0 although a task is missing
C21_Witness ==
    /\ fx_pc = "done"
    /\ fx_iterations = 2
    /\ fx_exit = 0
    /\ SomeStatus("missing")
    /\ SomeStatus("ok")

(***************************************************************************)
(* C22: the metadata keys are checked apart from the timestamp             *)
(***************************************************************************)

\* the file has an issue of the kind
HasIssue(i, kind) == \E j \in DOMAIN IssuesOf(i) : IssuesOf(i)[j].kind = kind

\* C22: every output file that is a JSON object lacking some required
\* metadata key gets a missing-metadata-keys issue, also when its timestamp
\* is present but cannot be parsed, and then it gets a timestamp issue of
\* its own as well.
C22_MissingKeysReportedSeparately ==
    dpc = "done" =>
        \A i \in Range(opened) :
            LET doc == target.outputs[i]
            IN  (doc.kind = "object" /\ MissingKeys(doc) # <<>>) =>
                    /\ HasIssue(i, "missing_keys")
                    /\ ("timestamp" \in doc.keys /\ ~FromIsoFormatOk(NormalizeZ(doc.timestamp)))
                           => HasIssue(i, "timestamp")

(***************************************************************************)
(* C23: the stages of validate_document                                    *)
(***************************************************************************)

\* the entries of errors reported by a stage
ErrorsOfStage(stage) == SelectSeq(vc_result.errors, LAMBDA e : e.stage = stage)

CachedPaths == [i \in DOMAIN sc_cache |-> sc_cache[i].path]

\* the last n elements of a sequence
LastOf(seq, n) == IF Len(seq) <= n THEN seq ELSE SubSeq(seq, Len(seq) - n + 1, Len(seq))

\* C26: after any sequence of audit calls the cache holds at most 4 entries,
\* those of the most recently looked up paths; a call whose path was cached
\* returned with the cached schema and without reading the file; and what a
\* call returns is what an audit of its tree with the schema so obtained
\* returns, which on a miss is the schema then on disk: nothing else is
\* carried over from earlier calls.
C26_SchemaCacheBounded ==
    /\ Len(sc_cache) <= 4
    /\ CachedPaths = LastOf(sc_used, 4)
    /\ sc_last.hit
          => /\ ~sc_last.read
             /\ ~sc_last.raised
             /\ sc_cache[Len(sc_cache)] = [path |-> sc_last.path, schema |-> sc_last.schema]
    /\ (sc_last.looked /\ ~sc_last.hit)
          => /\ sc_last.read
             /\ sc_last.raised <=> LoadSchemaRaises(sc_last.on_disk)
             /\ ~sc_last.raised => sc_last.schema = _load_output_schema(sc_last.on_disk)
    /\ (sc_last.path # 0 /\ ~sc_last.raised)
          => sc_last.result
                 = audit_data_layout(sc_last.tree, NoCap,
                                     IF sc_last.looked THEN sc_last.schema ELSE NoSchema).result

\* a fifth path has evicted the least recently used one, and the latest call
\* was answered from the cache although the file had been rewritten since
C26_Witness ==
    /\ Len(sc_used) = 5
    /\ Len(sc_cache) = 4
    /\ sc_used[1] = 2
    /\ sc_last.hit
    /\ sc_last.path = 1
    /\ sc_last.schema # _load_output_schema(sc_last.on_disk)
    /\ sc_last.result.metadata_issues # <<>>

(***************************************************************************)
(* C24: the loop of fix_audit_findings --run                               *)
(***************************************************************************)

\* the latest iteration left nothing to repeat for: no task failed and, with
\* --fail-on-missing, none is missing
CleanIteration ==
    ~SomeStatus("fail") /\ (fx_args.fail_on_missing => ~SomeStatus("missing"))

\* the counts and the stopping rule of the loop
LoopDiscipline ==
    /\ ~fx_args.loop => fx_iterations <= 1
    /\ (~fx_args.loop /\ fx_pc = "done") => fx_iterations = 1
    /\ fx_args.loop => fx_iterations <= fx_args.max_iterations
    /\ (fx_pc = "loop" /\ fx_iterations >= 1) => ~CleanIteration
    /\ (fx_pc = "done" /\ fx_args.loop /\ fx_iterations >= 1)
          => CleanIteration \/ fx_iterations = fx_args.max_iterations

\* C24: without --loop the selected tasks are run exactly once; with --loop
\* they are run at most max_iterations times, one iteration after the other,
\* and no further iteration follows one in which no task failed (and, with
\* --fail-on-missing, none was missing); main always comes to its end.
C24_LoopBoundedAndStopsWhenClean ==
    [] LoopDiscipline /\ <>(fx_pc \in {"done", "raised"})

\* a loop that stopped after a second iteration in which every command
\* succeeded
C24_Witness ==
    /\ fx_pc = "done"
    /\ fx_args.loop
    /\ fx_iterations = 2
    /\ CleanIteration
    /\ Len(fx_tasks) = 2
    /\ SomeStatus("ok")

(***************************************************************************)
(* C25: the findings of _scan_file                                         *)
(***************************************************************************)

\* _scan_file reads the text of the file: it is not skipped for its size and
\* neither stat nor read fails
IsRead(entry) ==
    /\ ~StatFails(entry)
    /\ ~(max_size_bytes # NoCap /\ entry.size > max_size_bytes)
    /\ entry.read = "ok"

\* the (line, pattern) pairs of a text with the pattern in the line, in
\* whatever letter case
MatchingPairs(entry) ==
    {pair \in (DOMAIN entry.lines) \X (DOMAIN RAW_LLM_PATTERNS) :
         \E m \in entry.lines[pair[1]] : m.pattern = RAW_LLM_PATTERNS[pair[2]].pattern}

\* the pair a finding reports
PairOf(finding) ==
    <<finding.line,
      CHOOSE k \in DOMAIN RAW_LLM_PATTERNS : RAW_LLM_PATTERNS[k].message = finding.message>>

\* C25: for a file that _scan_file reads, the findings are exactly one per
\* (line, pattern) pair with the lower-cased pattern in the lower-cased line,
\* with 1-based line numbers, ordered by line and then by pattern order;
\* two patterns in one line give two findings, a line without pattern none.
C25_OneFindingPerLineAndPattern ==
    llm_out.state = "returned" =>
        \A i \in Range(llm_out.yielded) :
            IsRead(scanned.files[i]) =>
                LET found == LlmFindingsOf(i)
                IN  /\ Len(found) = Cardinality(MatchingPairs(scanned.files[i]))
                    /\ {PairOf(found[j]) : j \in DOMAIN found} = MatchingPairs(scanned.files[i])
                    /\ \A j, k \in DOMAIN found :
                           j < k => \/ PairOf(found[j])[1] < PairOf(found[k])[1]
                                    \/ /\ PairOf(found[j])[1] = PairOf(found[k])[1]
                                       /\ PairOf(found[j])[2] < PairOf(found[k])[2]

\* a file whose first line holds no pattern and whose second line holds two,
\* in other letter cases: two findings for line 2, in pattern order
C25_Witness ==
    /\ llm_out.state = "returned"
    /\ Len(llm_out.findings) = 2
    /\ llm_out.findings[1].line = 2
    /\ llm_out.findings[2].line = 2
    /\ llm_out.findings[1].message = RAW_LLM_PATTERNS[1].message
    /\ llm_out.findings[2].message = RAW_LLM_PATTERNS[3].message

(***************************************************************************)
(* C27: main --run runs every selected task before it returns              *)
(***************************************************************************)

\* C27: when main --run has returned, every selected task has been passed
\* to run_task in at least one iteration and has a result, whatever
\* --max-iterations is, with or without --loop.
C27_EveryTaskRunBeforeReturn ==
    fx_pc = "done" =>
        \A i \in DOMAIN fx_tasks :
            /\ fx_iterations >= 1
            /\ i \in DOMAIN fx_results

(***************************************************************************)
(* C28: the ignore filter of the source scan and the root's own path       *)
(***************************************************************************)

\* the path of the entry relative to the target root has no segment of
\* IGNORE_DIRS of audit_llm_usage.py
RelativePathKept(entry) ==
    ~\E part \in Range(entry.dirs \o <<entry.name>>) : part \in LLM_IGNORE_DIRS

\* C28: when the raw-call audit has returned, every regular file with a
\* scanned extension whose path relative to the target root has no ignored
\* segment was yielded to the scan, whatever the directories on the target
\* root's own path are called.
C28_IgnoreFilterRelativeToRoot ==
    llm_out.state = "returned" =>
        \A i \in DOMAIN scanned.files :
            (/\ scanned.files[i].kind = "file"
             /\ SuffixOf(scanned.files[i].name) \in SCAN_EXTENSIONS
             /\ RelativePathKept(scanned.files[i]))
                => i \in Range(llm_out.yielded)

(***************************************************************************)
(* C29: the tooling audit and repeated items of missing_required           *)
(***************************************************************************)

\* no item occurs twice in the list
NoRepeats(items) == \A i, j \in DOMAIN items : items[i] = items[j] => i = j

\* C29: in every result of the tooling audit missing_required holds no item
\* twice, whatever languages are detected and whatever files are present,
\* as missing_recommended holds none twice.
C29_MissingRequiredHasNoRepeats ==
    auditor = "tooling" =>
        \A r \in DOMAIN aruns :
            /\ NoRepeats(aruns[r].result.missing_required)
            /\ NoRepeats(aruns[r].result.missing_recommended)

\* the half of C29 that the code keeps: missing_recommended holds no item twice
MissingRecommendedHasNoRepeats ==
    auditor = "tooling" =>
        \A r \in DOMAIN aruns : NoRepeats(aruns[r].result.missing_recommended)

(***************************************************************************)
(* C30: prompt_merge main ends with exit code 0 or 1                       *)
(***************************************************************************)

\* C30: whatever the three source files hold, main of prompt_merge is over
\* with exit code 0 or 1 and no exception leaves it; when a source fails to
\* load (missing core, unreadable file, malformed YAML, root not a mapping)
\* the exit code is 1.
C30_MainReturns0Or1 ==
    pm_run.state # "call" =>
        /\ pm_run.state = "done"
        /\ pm_run.exit_code \in {0, 1}
        /\ LoadSources(pm_files).exc # "none" => pm_run.exit_code = 1

====
